---- MODULE Spec2Model ----
(***************************************************************************)
(* A model of the payload pipeline of rdp2tcp's tools:                     *)
(*   tools/exe_to_ps1.py            compress, encode, expand the template  *)
(*   tools/exe_to_xte_script_ps1.py the same, then encode_xte: the script  *)
(*                                  as xte instructions with pauses        *)
(*                                                                         *)
(* Text is a sequence of characters, a character a one-character string.   *)
(* Characters TLA+ strings cannot hold are named by their code point       *)
(* ("U+0085"; "U+0060" is the grave accent).                               *)
(*                                                                         *)
(* Python's float seconds are fixed-point integers: a second is Second     *)
(* ticks, a microsecond SubMicro ticks, so that int(x * 1_000_000) is      *)
(* x \div SubMicro and truncates as the code's int() does.  The sleep      *)
(* multiplier is a fixed-point number too, RateOne standing for 1.0; a     *)
(* pause constant is kept in hundredths of a second, so that the product   *)
(* t * sleep is exact in ticks.                                            *)
(***************************************************************************)
EXTENDS Integers, Sequences, FiniteSets, TLC

VARIABLES
    text,           \* encode_xte: the argument text
    focus_delay,    \* encode_xte: the argument focus_delay, in ticks
    sleep,          \* encode_xte: the argument sleep (the rate multiplier)
    lines,          \* text.splitlines(), the sequence the outer loop walks
    li,             \* index of the current line in lines
    ci,             \* index of the current character in the line
    buffer,         \* the pending literal run
    output,         \* the instructions written to the BytesIO, in order
    total_seconds,  \* the accumulated time, in ticks
    tool,           \* which tool runs: "ps1" or "xte"
    data,           \* the bytes of the input file
    output_bin_name,  \* the file name the script writes on the target
    b64_data,       \* compress_and_encode(data)
    ps_script,      \* generate_powershell_script(b64_data, output_bin_name)
    target_bytes,   \* what the script, run on the target, decompresses
    infile,         \* main: args.infile, a path
    arg_bin_name,   \* main: args.output_bin_name, None when not given
    in_file,        \* the file at args.infile, absent when it cannot be read
    outfile0,       \* the file at args.outfile before the run
    outfile,        \* the file at args.outfile
    stdout,         \* what main printed
    stderr,         \* what main wrote to stderr
    exit_status,    \* the exit status of the process, None while it runs
    exc,            \* main: the exception an except clause caught, if any
    calls,          \* the calls of compress_and_encode made so far
    config_tunnels, \* rdp2tcp-cli: cli.config.tunnels
    client,         \* rdp2tcp-cli: cli.client, None or the open connection
    connections,    \* the controller's side: the connections opened so far
    sent,           \* the calls made on the controller client, in order
    stack,          \* rdp2tcp-cli: the frames of the running calls
    returned,       \* how the call that finished last ended
    nops,           \* the number of operations called on the cli object
    argv,           \* rdp2tcp-cli main: the command line
    args,           \* rdp2tcp-cli main: the namespace parse_args returned
    main_calls,     \* the calls main made on the cli object
    exit_code,      \* what main returned, None while it runs
    tester,         \* which SOCKS5 tester runs
    sock,           \* the tester's socket: "none", "open" or "closed"
    wire,           \* what the tester sent and received on the socket, in order
    response,       \* what the last recv returned
    tester_result,  \* what the tester returned, None while it runs
    script_exit,    \* the exit status of test-channel.py, None while it runs
    pc              \* position of the run

xteVars == <<text, focus_delay, sleep, lines, li, ci, buffer, output,
             total_seconds>>

codecVars == <<tool, data, output_bin_name, b64_data, ps_script,
               target_bytes>>

mainVars == <<infile, arg_bin_name, in_file, outfile0, outfile, stdout,
              stderr, exit_status, exc>>

callVars == <<calls>>

cliVars == <<config_tunnels, client, connections, sent, stack, returned,
             nops, argv, args, main_calls, exit_code>>

sockVars == <<tester, sock, wire, response, tester_result, script_exit>>

toolVars == <<cliVars, sockVars>>

vars == <<xteVars, codecVars, mainVars, callVars, toolVars, pc>>

----------------------------------------------------------------------------
(* Bounds of the model *)

\* longest text drawn for encode_xte
MaxTextLen == 4

\* longest payload and longest output file name drawn for the dropper
MaxDataLen == 2
MaxNameLen == 2

\* how many calls of compress_and_encode one process makes
MaxCalls == 3

\* ticks in a microsecond: the resolution to which float seconds are kept
SubMicro == 10

----------------------------------------------------------------------------
(* Fixed-point seconds *)

Second == 1000000 * SubMicro

\* the sleep multiplier 1.0: a pause of t hundredths of a second times a
\* multiplier n / RateOne lasts t * n ticks
RateOne == 10000 * SubMicro

\* int(x * 1_000_000) of a duration x
ToMicros(x) == x \div SubMicro

\* the pause constants of encode_xte, in hundredths of a second
STR_PAUSE == 2
KEY_PAUSE == 5
FLUSH_PAUSE == 8
LINE_PAUSE == 10

----------------------------------------------------------------------------
(* Instructions of an xte script *)

InstrStr(s) == [op |-> "str", text |-> s]
InstrKey(k) == [op |-> "key", arg |-> k]
InstrKeyDown(m) == [op |-> "keydown", arg |-> m]
InstrKeyUp(m) == [op |-> "keyup", arg |-> m]
\* usleep with its integer argument us; dur is the duration of the pause the
\* instruction was written for, before truncation
InstrUsleep(d) == [op |-> "usleep", us |-> ToMicros(d), dur |-> d]

Named(k) == [kind |-> "key", key |-> k]
Chord(m, k) == [kind |-> "chord", mod |-> m, key |-> k]

special_key_map ==
    ("\n" :> Named("Return")) @@ ("\t" :> Named("Tab")) @@
    (" " :> Named("space")) @@ ("/" :> Named("slash")) @@
    ("\\" :> Named("backslash")) @@ ("." :> Named("period")) @@
    ("," :> Named("comma")) @@ (";" :> Named("semicolon")) @@
    (":" :> Named("colon")) @@ ("'" :> Named("apostrophe")) @@
    ("\"" :> Named("quotedbl")) @@ ("[" :> Named("bracketleft")) @@
    ("]" :> Named("bracketright")) @@
    ("{" :> Chord("Shift_L", "bracketleft")) @@
    ("}" :> Chord("Shift_L", "bracketright")) @@
    ("(" :> Chord("Shift_L", "9")) @@ (")" :> Chord("Shift_L", "0")) @@
    ("!" :> Chord("Shift_L", "1")) @@ ("@" :> Chord("Shift_L", "2")) @@
    ("#" :> Chord("Shift_L", "3")) @@ ("$" :> Chord("Shift_L", "4")) @@
    ("%" :> Chord("Shift_L", "5")) @@ ("^" :> Chord("Shift_L", "6")) @@
    ("&" :> Chord("Shift_L", "7")) @@ ("*" :> Chord("Shift_L", "8")) @@
    ("+" :> Chord("Shift_L", "equal")) @@ ("=" :> Named("equal")) @@
    ("-" :> Named("minus")) @@ ("_" :> Chord("Shift_L", "minus")) @@
    ("?" :> Chord("Shift_L", "slash")) @@
    ("<" :> Chord("Shift_L", "comma")) @@
    (">" :> Chord("Shift_L", "period")) @@
    ("|" :> Chord("Shift_L", "backslash")) @@ ("U+0060" :> Named("grave")) @@
    ("~" :> Chord("Shift_L", "grave"))

\* c in special_key_map
InSpecialKeyMap(c) == c \in DOMAIN special_key_map

----------------------------------------------------------------------------
(* str.splitlines() *)

\* the line boundaries of str.splitlines(); "\r\n" counts as one
LineSeps == {"\n", "\r", "\f", "U+000B", "U+001C", "U+001D", "U+001E",
             "U+0085", "U+2028", "U+2029"}

\* one character of the scan: a boundary ends the current line, the "\n"
\* of a "\r\n" is skipped, any other character joins the current line
SplitChar(st, t, i) ==
    IF st.skip THEN [st EXCEPT !.skip = FALSE]
    ELSE IF t[i] \in LineSeps
         THEN [cur |-> <<>>, acc |-> Append(st.acc, st.cur),
               skip |-> t[i] = "\r" /\ i < Len(t) /\ t[i + 1] = "\n"]
         ELSE [st EXCEPT !.cur = Append(@, t[i])]

\* TLC evaluates an argument when it is first used: the folds below halve
\* their range and compute the left half before they enter the right one,
\* so that the evaluation of a long text stays shallow.
Computed(x) == x = x

\* the scan of the characters lo..hi, from left to right
RECURSIVE SplitFrom(_, _, _, _)
SplitFrom(st, t, lo, hi) ==
    IF lo > hi THEN st
    ELSE IF lo = hi THEN SplitChar(st, t, lo)
    ELSE LET left == SplitFrom(st, t, lo, (lo + hi) \div 2)
         IN  IF Computed(left)
             THEN SplitFrom(left, t, (lo + hi) \div 2 + 1, hi)
             ELSE left

\* a last line without terminator counts; an empty rest after the last
\* boundary does not
splitlines(t) ==
    LET st == SplitFrom([cur |-> <<>>, acc |-> <<>>, skip |-> FALSE],
                        t, 1, Len(t))
    IN  IF st.cur # <<>> THEN Append(st.acc, st.cur) ELSE st.acc

----------------------------------------------------------------------------
(* encode_xte *)

\* The state the closures of encode_xte share: the BytesIO, the total, the
\* multiplier and the pending run.
Env == [output |-> output, total_seconds |-> total_seconds, sleep |-> sleep,
        buffer |-> buffer]

\* output.write of one instruction
write(e, ins) == [e EXCEPT !.output = Append(@, ins)]

RECURSIVE writeAll(_, _)
writeAll(e, inss) ==
    IF inss = <<>> THEN e ELSE writeAll(write(e, Head(inss)), Tail(inss))

\* xsleep adding the unscaled pause to the total
xsleep_unscaled_total(e, t) ==
    LET adjusted == t * e.sleep
    IN  [e EXCEPT !.total_seconds = @ + t * RateOne,
                  !.output = Append(@, InstrUsleep(adjusted))]

\* xsleep(t): the pause t scaled by the multiplier, added to the total and
\* written as a usleep
xsleep(e, t) ==
    LET adjusted == t * e.sleep
    IN  [e EXCEPT !.total_seconds = @ + adjusted,
                  !.output = Append(@, InstrUsleep(adjusted))]

\* lines 97-100: a non-empty pending run is written, paused for and emptied
flush_before_key(e) ==
    IF e.buffer # <<>>
    THEN [xsleep(write(e, InstrStr(e.buffer)), FLUSH_PAUSE)
             EXCEPT !.buffer = <<>>]
    ELSE e

\* a mapped character written as its key alone, the modifier forgotten
KeyInstrsBare(key) == <<InstrKey(key.key)>>

\* a chord whose modifier is never released
KeyInstrs_unreleased(key) ==
    IF key.kind = "chord"
    THEN <<InstrKeyDown(key.mod), InstrKey(key.key)>>
    ELSE <<InstrKey(key.key)>>

\* lines 102-107: the instructions of a mapped character, a chord or a key
KeyInstrs(key) ==
    IF key.kind = "chord"
    THEN <<InstrKeyDown(key.mod), InstrKey(key.key), InstrKeyUp(key.mod)>>
    ELSE <<InstrKey(key.key)>>

\* a mapped character whose pause ignores the multiplier
special_char_unscaled(e, c) ==
    LET w == writeAll(flush_before_key(e), KeyInstrs(special_key_map[c]))
    IN  [w EXCEPT !.total_seconds = @ + KEY_PAUSE * RateOne,
                  !.output = Append(@, InstrUsleep(KEY_PAUSE * RateOne))]

\* lines 96-108: a character of special_key_map
special_char(e, c) ==
    xsleep(writeAll(flush_before_key(e), KeyInstrs(special_key_map[c])),
           KEY_PAUSE)

\* an unmapped character paused for but not written
literal_char_dropped(e, c) == xsleep(e, STR_PAUSE)

\* an unmapped character joining the pending run
literal_char_buffered(e, c) == [e EXCEPT !.buffer = Append(@, c)]

\* an unmapped character written with no pause after it
literal_char_unpaused(e, c) == write(e, InstrStr(<<c>>))

\* lines 109-111: any other character is written at once
literal_char(e, c) == xsleep(write(e, InstrStr(<<c>>)), STR_PAUSE)

\* the end of a line flushing the pending run without testing it
end_of_line_unguarded(e) ==
    xsleep(write(xsleep(write(e, InstrStr(e.buffer)), FLUSH_PAUSE),
                 InstrKey("Return")),
           LINE_PAUSE)

\* lines 113-117: the end of a line
end_of_line(e) ==
    LET flushed == IF e.buffer # <<>>
                   THEN xsleep(write(e, InstrStr(e.buffer)), FLUSH_PAUSE)
                   ELSE e
    IN  xsleep(write(flushed, InstrKey("Return")), LINE_PAUSE)

\* the focus pause scaled by the multiplier as the other pauses are
xte_begin_scaled(fd, sl) ==
    [output |-> <<InstrUsleep((fd \div RateOne) * sl)>>,
     total_seconds |-> (fd \div RateOne) * sl, sleep |-> sl,
     buffer |-> <<>>]

\* lines 45 and 91: the total starts at the focus delay, the focus pause is
\* written unscaled
xte_begin(fd, sl) ==
    [output |-> <<InstrUsleep(fd)>>, total_seconds |-> fd, sleep |-> sl,
     buffer |-> <<>>]

\* lines 96-111: one character of a line
xte_char(e, c) ==
    IF InSpecialKeyMap(c) THEN special_char(e, c) ELSE literal_char(e, c)

\* lines 95-111: the characters lo..hi of a line, from left to right
RECURSIVE xte_chars(_, _, _, _)
xte_chars(e, line, lo, hi) ==
    IF lo > hi THEN e
    ELSE IF lo = hi THEN xte_char(e, line[lo])
    ELSE LET left == xte_chars(e, line, lo, (lo + hi) \div 2)
         IN  IF Computed(left)
             THEN xte_chars(left, line, (lo + hi) \div 2 + 1, hi)
             ELSE left

\* lines 94-117: one line
xte_line(e, line) ==
    end_of_line(xte_chars([e EXCEPT !.buffer = <<>>], line, 1, Len(line)))

\* lines 93-117: the lines lo..hi, in order
RECURSIVE xte_lines(_, _, _, _)
xte_lines(e, ls, lo, hi) ==
    IF lo > hi THEN e
    ELSE IF lo = hi THEN xte_line(e, ls[lo])
    ELSE LET left == xte_lines(e, ls, lo, (lo + hi) \div 2)
         IN  IF Computed(left)
             THEN xte_lines(left, ls, (lo + hi) \div 2 + 1, hi)
             ELSE left

\* encode_xte as a function: lines 43-119 run to the end
encode_xte(t, fd, sl) ==
    LET ls == splitlines(t)
        e == xte_lines(xte_begin(fd, sl), ls, 1, Len(ls))
    IN  <<e.output, e.total_seconds>>

----------------------------------------------------------------------------
(* compress_and_encode *)

Pow2(n) == 2 ^ n

\* the bits of a byte, least significant first, as deflate packs them
ByteBits(b) == [i \in 1..8 |-> (b \div Pow2(i - 1)) % 2]

\* the n bits of a Huffman code, most significant first
CodeBits(v, n) == [i \in 1..n |-> (v \div Pow2(n - i)) % 2]

\* the value of bits read most significant first
RECURSIVE CodeValue(_)
CodeValue(bits) ==
    IF bits = <<>> THEN 0
    ELSE 2 * CodeValue(SubSeq(bits, 1, Len(bits) - 1)) + bits[Len(bits)]

\* the fixed Huffman code of a literal byte (RFC 1951, 3.2.6)
FixedLiteral(b) ==
    IF b < 144 THEN CodeBits(48 + b, 8) ELSE CodeBits(400 + (b - 144), 9)

EndOfBlock == CodeBits(0, 7)

RECURSIVE LiteralBits(_)
LiteralBits(bytes) ==
    IF bytes = <<>> THEN <<>>
    ELSE FixedLiteral(Head(bytes)) \o LiteralBits(Tail(bytes))

\* bits packed into bytes, least significant first, the last byte padded
RECURSIVE PackBits(_)
PackBits(bits) ==
    IF bits = <<>> THEN <<>>
    ELSE LET n == IF Len(bits) < 8 THEN Len(bits) ELSE 8
             byte == CodeValue([i \in 1..n |-> bits[n + 1 - i]])
         IN  <<byte>> \o PackBits(SubSeq(bits, n + 1, Len(bits)))

\* The raw deflate stream zlib writes for a short payload: one final block
\* of fixed Huffman codes, every byte a literal (a payload this short gives
\* the matcher nothing to match), then the end-of-block code.
deflate_raw(bytes) ==
    PackBits(<<1, 1, 0>> \o LiteralBits(bytes) \o EndOfBlock)

\* Adler-32 of the payload, big-endian
RECURSIVE AdlerFrom(_, _, _)
AdlerFrom(bytes, a, b) ==
    IF bytes = <<>> THEN <<b \div 256, b % 256, a \div 256, a % 256>>
    ELSE LET a2 == (a + Head(bytes)) % 65521
         IN  AdlerFrom(Tail(bytes), a2, (b + a2) % 65521)

adler32(bytes) == AdlerFrom(bytes, 1, 0)

\* the two header bytes of a zlib stream at level 9: 0x78 0xDA
ZlibHeader == <<120, 218>>

\* a raw deflate stream, as with wbits=-15: no header, no checksum
zlib_compress_headerless(bytes) == deflate_raw(bytes)

\* zlib.compress(data, level=9): header, deflate stream, checksum
zlib_compress(bytes) == ZlibHeader \o deflate_raw(bytes) \o adler32(bytes)

B64Alphabet ==
    <<"A", "B", "C", "D", "E", "F", "G", "H", "I", "J", "K", "L", "M",
      "N", "O", "P", "Q", "R", "S", "T", "U", "V", "W", "X", "Y", "Z",
      "a", "b", "c", "d", "e", "f", "g", "h", "i", "j", "k", "l", "m",
      "n", "o", "p", "q", "r", "s", "t", "u", "v", "w", "x", "y", "z",
      "0", "1", "2", "3", "4", "5", "6", "7", "8", "9", "+", "/">>

B64Char(v) == B64Alphabet[v + 1]

\* base64.b64encode(...).decode(): three bytes to four characters, the
\* last group padded with "="
RECURSIVE b64encode(_)
b64encode(bytes) ==
    IF bytes = <<>> THEN <<>>
    ELSE IF Len(bytes) = 1
    THEN <<B64Char(bytes[1] \div 4), B64Char((bytes[1] % 4) * 16), "=", "=">>
    ELSE IF Len(bytes) = 2
    THEN <<B64Char(bytes[1] \div 4),
           B64Char((bytes[1] % 4) * 16 + bytes[2] \div 16),
           B64Char((bytes[2] % 16) * 4), "=">>
    ELSE <<B64Char(bytes[1] \div 4),
           B64Char((bytes[1] % 4) * 16 + bytes[2] \div 16),
           B64Char((bytes[2] % 16) * 4 + bytes[3] \div 64),
           B64Char(bytes[3] % 64)>>
         \o b64encode(SubSeq(bytes, 4, Len(bytes)))

\* lines 8-10
compress_and_encode(bytes) == b64encode(zlib_compress(bytes))

----------------------------------------------------------------------------
(* generate_powershell_script *)

\* the template of exe_to_xte_script_ps1.py, up to the opening quote of $b64
XTE_HEAD ==
    <<"\n", "$", "b", "6", "4", " ", "=", " ", "\"">>

\* the template of exe_to_xte_script_ps1.py, from the closing quote of $b64
\* to the opening quote before the output name
XTE_MID ==
    <<"\"", "\n", "\n", "$", "c", "o", "m", "p", "r", "e", "s", "s", "e",
      "d", " ", "=", " ", "[", "C", "o", "n", "v", "e", "r", "t", "]", ":",
      ":", "F", "r", "o", "m", "B", "a", "s", "e", "6", "4", "S", "t", "r",
      "i", "n", "g", "(", "$", "b", "6", "4", ")", "\n", "\n", "$", "m",
      "s", " ", "=", " ", "N", "e", "w", "-", "O", "b", "j", "e", "c", "t",
      " ", "S", "y", "s", "t", "e", "m", ".", "I", "O", ".", "M", "e", "m",
      "o", "r", "y", "S", "t", "r", "e", "a", "m", "\n", "\n", "$", "n",
      "u", "l", "l", " ", "=", " ", "$", "m", "s", ".", "W", "r", "i", "t",
      "e", "(", "$", "c", "o", "m", "p", "r", "e", "s", "s", "e", "d", ",",
      " ", "2", ",", " ", "$", "c", "o", "m", "p", "r", "e", "s", "s", "e",
      "d", ".", "L", "e", "n", "g", "t", "h", " ", "-", " ", "2", ")",
      "\n", "\n", "$", "n", "u", "l", "l", " ", "=", " ", "$", "m", "s",
      ".", "S", "e", "e", "k", "(", "0", ",", " ", "0", ")", "\n", "\n",
      "$", "d", "s", " ", "=", " ", "N", "e", "w", "-", "O", "b", "j", "e",
      "c", "t", " ", "S", "y", "s", "t", "e", "m", ".", "I", "O", ".", "C",
      "o", "m", "p", "r", "e", "s", "s", "i", "o", "n", ".", "D", "e", "f",
      "l", "a", "t", "e", "S", "t", "r", "e", "a", "m", "(", "$", "m", "s",
      ",", "[", "S", "y", "s", "t", "e", "m", ".", "I", "O", ".", "C", "o",
      "m", "p", "r", "e", "s", "s", "i", "o", "n", ".", "C", "o", "m", "p",
      "r", "e", "s", "s", "i", "o", "n", "M", "o", "d", "e", "]", ":", ":",
      "D", "e", "c", "o", "m", "p", "r", "e", "s", "s", ")", "\n", "\n",
      "$", "o", "u", "t", " ", "=", " ", "N", "e", "w", "-", "O", "b", "j",
      "e", "c", "t", " ", "S", "y", "s", "t", "e", "m", ".", "I", "O", ".",
      "M", "e", "m", "o", "r", "y", "S", "t", "r", "e", "a", "m", "\n",
      "\n", "$", "d", "s", ".", "C", "o", "p", "y", "T", "o", "(", "$",
      "o", "u", "t", ")", "\n", "\n", "$", "m", "s", ".", "C", "l", "o",
      "s", "e", "(", ")", "\n", "\n", "$", "d", "s", ".", "C", "l", "o",
      "s", "e", "(", ")", "\n", "\n", "$", "o", "u", "t", "p", "u", "t",
      "P", "a", "t", "h", " ", "=", " ", "J", "o", "i", "n", "-", "P", "a",
      "t", "h", " ", "$", "e", "n", "v", ":", "U", "S", "E", "R", "P", "R",
      "O", "F", "I", "L", "E", " ", "\"">>

\* the template of exe_to_xte_script_ps1.py, from the closing quote after the output name
XTE_TAIL ==
    <<"\"", "\n", "\n", "[", "S", "y", "s", "t", "e", "m", ".", "I", "O",
      ".", "F", "i", "l", "e", "]", ":", ":", "W", "r", "i", "t", "e", "A",
      "l", "l", "B", "y", "t", "e", "s", "(", "$", "o", "u", "t", "p", "u",
      "t", "P", "a", "t", "h", ",", " ", "$", "o", "u", "t", ".", "T", "o",
      "A", "r", "r", "a", "y", "(", ")", ")", "\n", "\n", "$", "o", "u",
      "t", ".", "C", "l", "o", "s", "e", "(", ")", "\n">>

\* the template of exe_to_ps1.py, up to the opening quote of $b64
PS1_HEAD ==
    <<"$", "b", "6", "4", " ", "=", " ", "\"">>

\* the template of exe_to_ps1.py, from the closing quote of $b64 to the
\* opening quote before the output name
PS1_MID ==
    <<"\"", "\n", "$", "c", "o", "m", "p", "r", "e", "s", "s", "e", "d",
      " ", "=", " ", "[", "C", "o", "n", "v", "e", "r", "t", "]", ":", ":",
      "F", "r", "o", "m", "B", "a", "s", "e", "6", "4", "S", "t", "r", "i",
      "n", "g", "(", "$", "b", "6", "4", ")", "\n", "$", "m", "s", " ",
      "=", " ", "N", "e", "w", "-", "O", "b", "j", "e", "c", "t", " ", "S",
      "y", "s", "t", "e", "m", ".", "I", "O", ".", "M", "e", "m", "o", "r",
      "y", "S", "t", "r", "e", "a", "m", "\n", "$", "m", "s", ".", "W",
      "r", "i", "t", "e", "(", "$", "c", "o", "m", "p", "r", "e", "s", "s",
      "e", "d", ",", " ", "2", ",", " ", "$", "c", "o", "m", "p", "r", "e",
      "s", "s", "e", "d", ".", "L", "e", "n", "g", "t", "h", " ", "-", " ",
      "2", ")", "\n", "$", "m", "s", ".", "S", "e", "e", "k", "(", "0",
      ",", " ", "0", ")", " ", "|", " ", "O", "u", "t", "-", "N", "u", "l",
      "l", "\n", "\n", "$", "d", "s", " ", "=", " ", "N", "e", "w", "-",
      "O", "b", "j", "e", "c", "t", " ", "S", "y", "s", "t", "e", "m", ".",
      "I", "O", ".", "C", "o", "m", "p", "r", "e", "s", "s", "i", "o", "n",
      ".", "D", "e", "f", "l", "a", "t", "e", "S", "t", "r", "e", "a", "m",
      "(", "$", "m", "s", ",", " ", "[", "S", "y", "s", "t", "e", "m", ".",
      "I", "O", ".", "C", "o", "m", "p", "r", "e", "s", "s", "i", "o", "n",
      ".", "C", "o", "m", "p", "r", "e", "s", "s", "i", "o", "n", "M", "o",
      "d", "e", "]", ":", ":", "D", "e", "c", "o", "m", "p", "r", "e", "s",
      "s", ")", "\n", "$", "o", "u", "t", " ", "=", " ", "N", "e", "w",
      "-", "O", "b", "j", "e", "c", "t", " ", "S", "y", "s", "t", "e", "m",
      ".", "I", "O", ".", "M", "e", "m", "o", "r", "y", "S", "t", "r", "e",
      "a", "m", "\n", "$", "d", "s", ".", "C", "o", "p", "y", "T", "o",
      "(", "$", "o", "u", "t", ")", "\n", "$", "m", "s", ".", "C", "l",
      "o", "s", "e", "(", ")", "\n", "\n", "[", "S", "y", "s", "t", "e",
      "m", ".", "I", "O", ".", "F", "i", "l", "e", "]", ":", ":", "W", "r",
      "i", "t", "e", "A", "l", "l", "B", "y", "t", "e", "s", "(", "\"",
      "$", "e", "n", "v", ":", "U", "S", "E", "R", "P", "R", "O", "F", "I",
      "L", "E", "\\">>

\* the template of exe_to_ps1.py, from the closing quote after the output name
PS1_TAIL ==
    <<"\"", ",", " ", "$", "o", "u", "t", ".", "T", "o", "A", "r", "r",
      "a", "y", "(", ")", ")", "\n", "$", "o", "u", "t", ".", "C", "l",
      "o", "s", "e", "(", ")", "\n">>
\* the template expanded with the padding of the encoded text trimmed
generate_powershell_script_trimmed(tl, encoded_data, output_filename) ==
    LET trimmed == SelectSeq(encoded_data, LAMBDA c : c # "=")
    IN  IF tl = "xte"
        THEN XTE_HEAD \o trimmed \o XTE_MID \o output_filename \o XTE_TAIL
        ELSE PS1_HEAD \o trimmed \o PS1_MID \o output_filename \o PS1_TAIL

\* lines 12-40 (12-27 of exe_to_ps1.py): the f-string with its two fields
generate_powershell_script(tl, encoded_data, output_filename) ==
    IF tl = "xte"
    THEN XTE_HEAD \o encoded_data \o XTE_MID \o output_filename \o XTE_TAIL
    ELSE PS1_HEAD \o encoded_data \o PS1_MID \o output_filename \o PS1_TAIL

----------------------------------------------------------------------------
(* The script on the target: lines 14-28 of the template *)

B64Value(c) == CHOOSE v \in 0..63 : B64Alphabet[v + 1] = c

\* [Convert]::FromBase64String
RECURSIVE FromBase64String(_)
FromBase64String(cs) ==
    IF Len(cs) < 4 THEN <<>>
    ELSE LET v1 == B64Value(cs[1])
             v2 == B64Value(cs[2])
         IN  IF cs[3] = "="
             THEN <<v1 * 4 + v2 \div 16>>
             ELSE IF cs[4] = "="
             THEN <<v1 * 4 + v2 \div 16,
                    (v2 % 16) * 16 + B64Value(cs[3]) \div 4>>
             ELSE <<v1 * 4 + v2 \div 16,
                    (v2 % 16) * 16 + B64Value(cs[3]) \div 4,
                    (B64Value(cs[3]) % 4) * 64 + B64Value(cs[4])>>
                  \o FromBase64String(SubSeq(cs, 5, Len(cs)))

RECURSIVE BitsOf(_)
BitsOf(bytes) ==
    IF bytes = <<>> THEN <<>> ELSE ByteBits(Head(bytes)) \o BitsOf(Tail(bytes))

\* what a decompression yields: the bytes, or a failure
NoBytes == [ok |-> FALSE, bytes |-> <<>>]
Bytes(bs) == [ok |-> TRUE, bytes |-> bs]

\* the symbols of a block of fixed Huffman codes from bit i on; a length
\* code, which deflate_raw never writes, is not decoded
RECURSIVE InflateFixed(_, _, _)
InflateFixed(bits, i, acc) ==
    IF i + 6 > Len(bits) THEN NoBytes
    ELSE LET v7 == CodeValue(SubSeq(bits, i, i + 6))
         IN  IF v7 = 0 THEN Bytes(acc)
             ELSE IF v7 < 24 \/ i + 7 > Len(bits) THEN NoBytes
             ELSE LET v8 == 2 * v7 + bits[i + 7]
                  IN  IF v8 >= 48 /\ v8 <= 191
                      THEN InflateFixed(bits, i + 8, Append(acc, v8 - 48))
                      ELSE IF v8 < 200 \/ i + 8 > Len(bits) THEN NoBytes
                      ELSE InflateFixed(bits, i + 9,
                                        Append(acc,
                                               2 * v8 + bits[i + 8] - 256))

\* DeflateStream in Decompress mode over a raw deflate stream: the block
\* header (final block, fixed codes), then its symbols; what follows the
\* end-of-block code is not read
DeflateStreamDecompress(bytes) ==
    LET bits == BitsOf(bytes)
    IN  IF Len(bits) < 3 \/ SubSeq(bits, 1, 3) # <<1, 1, 0>>
        THEN NoBytes
        ELSE InflateFixed(bits, 4, <<>>)

\* $ms.Write($compressed, 2, $compressed.Length - 2): count bytes of the
\* buffer from offset on
MsWriteOffset == 2
MsWriteCount(len) == len - 2
MemoryStreamWrite(buf, offset, count) ==
    SubSeq(buf, offset + 1, offset + count)

\* the value of $b64: the characters of the script between the quote that
\* ends the head of the template and the next quote
RECURSIVE UpToQuote(_, _)
UpToQuote(s, i) ==
    IF i > Len(s) \/ s[i] = "\"" THEN <<>>
    ELSE <<s[i]>> \o UpToQuote(s, i + 1)

B64Literal(tl, script) ==
    UpToQuote(script, Len(IF tl = "xte" THEN XTE_HEAD ELSE PS1_HEAD) + 1)

\* lines 14-28 of the template run on the target
RunDropper(tl, script) ==
    LET compressed == FromBase64String(B64Literal(tl, script))
        ms == MemoryStreamWrite(compressed, MsWriteOffset,
                                MsWriteCount(Len(compressed)))
    IN  DeflateStreamDecompress(ms)

----------------------------------------------------------------------------
(* The dropper pipeline: encode, expand the template, run on the target *)

PayloadBytes == {0, 97, 144, 255}

Payloads == UNION {[1..n -> PayloadBytes] : n \in 0..MaxDataLen}

\* characters of output file names: plain ones, and those a double-quoted
\* PowerShell string gives a meaning to
NameAlphabet == {"a", ".", " ", "\"", "$", "U+0060"}

Names == UNION {[1..n -> NameAlphabet] : n \in 1..MaxNameLen}

\* a file: absent, or present with its content
Absent == [exists |-> FALSE, content |-> <<>>]
File(c) == [exists |-> TRUE, content |-> c]

\* an optional value: a command-line argument, a caught exception
None == [given |-> FALSE, value |-> <<>>]
Some(v) == [given |-> TRUE, value |-> v]

\* the exit status of the process, once it has one
Running == [exited |-> FALSE, code |-> 0]
Exited(c) == [exited |-> TRUE, code |-> c]

\* main does not run
MainIdle ==
    /\ infile = <<>>
    /\ arg_bin_name = None
    /\ in_file = Absent
    /\ outfile0 = Absent
    /\ outfile = Absent
    /\ stdout = <<>>
    /\ stderr = <<>>
    /\ exit_status = Running
    /\ exc = None

\* compress_and_encode has not been called on its own
CallsIdle == calls = <<>>

\* no call has finished yet
NoResult == [kind |-> "none", value |-> FALSE, exc |-> ""]

\* rdp2tcp-cli.py does not run
CliIdle ==
    /\ config_tunnels = <<>>
    /\ client = None
    /\ connections = <<>>
    /\ sent = <<>>
    /\ stack = <<>>
    /\ returned = NoResult
    /\ nops = 0
    /\ argv = <<>>
    /\ args = <<>>
    /\ main_calls = <<>>
    /\ exit_code = None

\* no SOCKS5 tester runs
SocksIdle ==
    /\ tester = ""
    /\ sock = "none"
    /\ wire = <<>>
    /\ response = <<>>
    /\ tester_result = None
    /\ script_exit = None

ToolsIdle == CliIdle /\ SocksIdle

XteIdle ==
    /\ text = <<>>
    /\ focus_delay = 0
    /\ sleep = 0
    /\ lines = <<>>
    /\ li = 0
    /\ ci = 0
    /\ buffer = <<>>
    /\ output = <<>>
    /\ total_seconds = 0

CodecInit ==
    /\ tool \in {"ps1", "xte"}
    /\ data \in Payloads
    /\ output_bin_name \in Names
    /\ b64_data = <<>>
    /\ ps_script = <<>>
    /\ target_bytes = NoBytes
    /\ XteIdle
    /\ MainIdle
    /\ CallsIdle
    /\ ToolsIdle
    /\ pc = "encode"

CompressAndEncode ==
    /\ pc = "encode"
    /\ b64_data' = compress_and_encode(data)
    /\ pc' = "template"
    /\ UNCHANGED <<tool, data, output_bin_name, ps_script, target_bytes>>
    /\ UNCHANGED <<xteVars, mainVars, callVars, toolVars>>

GenerateScript ==
    /\ pc = "template"
    /\ ps_script' = generate_powershell_script(tool, b64_data,
                                               output_bin_name)
    /\ pc' = "script"
    /\ UNCHANGED <<tool, data, output_bin_name, b64_data, target_bytes>>
    /\ UNCHANGED <<xteVars, mainVars, callVars, toolVars>>

RunOnTarget ==
    /\ pc = "script"
    /\ target_bytes' = RunDropper(tool, ps_script)
    /\ pc' = "ran"
    /\ UNCHANGED <<tool, data, output_bin_name, b64_data, ps_script>>
    /\ UNCHANGED <<xteVars, mainVars, callVars, toolVars>>

CodecNext ==
    \/ CompressAndEncode
    \/ GenerateScript
    \/ RunOnTarget

SpecCodec == CodecInit /\ [][CodecNext]_vars

\* zlib.compress(data, level=9) of b"", b"a", b"\x90" and b"ab", and the
\* base64 of the second and the last, as CPython gives them
CodecFixtures ==
    /\ zlib_compress(<<>>) = <<120, 218, 3, 0, 0, 0, 0, 1>>
    /\ zlib_compress(<<97>>) = <<120, 218, 75, 4, 0, 0, 98, 0, 98>>
    /\ zlib_compress(<<144>>) = <<120, 218, 155, 0, 0, 0, 145, 0, 145>>
    /\ zlib_compress(<<97, 98>>)
          = <<120, 218, 75, 76, 2, 0, 1, 38, 0, 196>>
    /\ compress_and_encode(<<97>>)
          = <<"e", "N", "p", "L", "B", "A", "A", "A", "Y", "g", "B", "i">>
    /\ compress_and_encode(<<97, 98>>)
          = <<"e", "N", "p", "L", "T", "A", "I", "A", "A", "S", "Y", "A",
              "x", "A", "=", "=">>

----------------------------------------------------------------------------
(* compress_and_encode called again and again in one process *)

\* the bytes given to the calls before call n
RECURSIVE EarlierData(_, _)
EarlierData(cs, n) ==
    IF n <= 1 THEN <<>> ELSE EarlierData(cs, n - 1) \o cs[n - 1].data

\* the payloads of the calls: the one under test and another one
CallPayloads == {data, <<144>>}

CallsInit ==
    /\ tool \in {"ps1", "xte"}
    /\ data \in Payloads
    /\ output_bin_name = <<>>
    /\ b64_data = <<>>
    /\ ps_script = <<>>
    /\ target_bytes = NoBytes
    /\ XteIdle
    /\ MainIdle
    /\ calls = <<>>
    /\ ToolsIdle
    /\ pc = "call"

\* a call whose stream goes on from the earlier calls: the checksum covers
\* their bytes too
CallCompress_carrying ==
    /\ pc = "call"
    /\ Len(calls) < MaxCalls
    /\ \E B \in CallPayloads :
          calls' = Append(calls,
                          [data |-> B,
                           compressed |->
                               ZlibHeader \o deflate_raw(B)
                                   \o adler32(EarlierData(calls,
                                                          Len(calls) + 1)
                                              \o B),
                           result |-> <<>>])
    /\ pc' = "compressed"
    /\ UNCHANGED <<xteVars, codecVars, mainVars, toolVars>>

\* line 9: a call compresses its argument with a stream of its own
CallCompress ==
    /\ pc = "call"
    /\ Len(calls) < MaxCalls
    /\ \E B \in CallPayloads :
          calls' = Append(calls, [data |-> B,
                                 compressed |-> zlib_compress(B),
                                 result |-> <<>>])
    /\ pc' = "compressed"
    /\ UNCHANGED <<xteVars, codecVars, mainVars, toolVars>>

\* line 10: it returns the base64 text of the compressed bytes
CallReturn ==
    /\ pc = "compressed"
    /\ calls' = [calls EXCEPT ![Len(calls)].result =
                                  b64encode(calls[Len(calls)].compressed)]
    /\ pc' = "call"
    /\ UNCHANGED <<xteVars, codecVars, mainVars, toolVars>>

CallsNext ==
    \/ CallCompress
    \/ CallReturn

SpecCalls == CallsInit /\ [][CallsNext]_vars

----------------------------------------------------------------------------
(* encode_xte, step by step *)

\* the alphabet of the texts drawn: literals, keys, a chord, line boundaries
XteAlphabet == {"a", "U+00E9", " ", "{", "[", "\n", "\r", "U+0085"}

EchoHi == <<"e", "c", "h", "o", " ", "h", "i", "\n">>

XteTexts ==
    UNION {[1..n -> XteAlphabet] : n \in 0..MaxTextLen} \cup {EchoHi}

\* 1.0 s and 3.0000005 s
FocusDelays == {Second, 3 * Second + SubMicro \div 2}

\* 1.0 and 2.00001
SleepRates == {RateOne, 2 * RateOne + 1}

\* nothing of the dropper pipeline has run
CodecIdle ==
    /\ tool = "xte"
    /\ data = <<>>
    /\ output_bin_name = <<>>
    /\ b64_data = <<>>
    /\ ps_script = <<>>
    /\ target_bytes = NoBytes

XteInit ==
    /\ text \in XteTexts
    /\ focus_delay \in FocusDelays
    /\ sleep \in SleepRates
    /\ lines = <<>>
    /\ li = 0
    /\ ci = 0
    /\ buffer = <<>>
    /\ output = <<>>
    /\ total_seconds = 0
    /\ CodecIdle
    /\ MainIdle
    /\ CallsIdle
    /\ ToolsIdle
    /\ pc = "start"

SetEnv(e) ==
    /\ output' = e.output
    /\ total_seconds' = e.total_seconds
    /\ buffer' = e.buffer

\* lines 43-94: up to the first character of the first line
XteBegin ==
    /\ pc = "start"
    /\ SetEnv(xte_begin(focus_delay, sleep))
    /\ lines' = splitlines(text)
    /\ li' = 1
    /\ ci' = 1
    /\ pc' = "loop"
    /\ UNCHANGED <<text, focus_delay, sleep>>
    /\ UNCHANGED <<codecVars, mainVars, callVars, toolVars>>

\* lines 96-108: the character is in special_key_map
XteSpecialChar ==
    /\ pc = "loop"
    /\ li <= Len(lines)
    /\ ci <= Len(lines[li])
    /\ InSpecialKeyMap(lines[li][ci])
    /\ SetEnv(special_char(Env, lines[li][ci]))
    /\ ci' = ci + 1
    /\ UNCHANGED <<text, focus_delay, sleep, lines, li, pc>>
    /\ UNCHANGED <<codecVars, mainVars, callVars, toolVars>>

\* lines 109-111: it is not
XteLiteralChar ==
    /\ pc = "loop"
    /\ li <= Len(lines)
    /\ ci <= Len(lines[li])
    /\ ~InSpecialKeyMap(lines[li][ci])
    /\ SetEnv(literal_char(Env, lines[li][ci]))
    /\ ci' = ci + 1
    /\ UNCHANGED <<text, focus_delay, sleep, lines, li, pc>>
    /\ UNCHANGED <<codecVars, mainVars, callVars, toolVars>>

\* a last line that the text does not terminate left without its Return
XteEndOfLine_unterminated_last ==
    /\ pc = "loop"
    /\ li <= Len(lines)
    /\ ci > Len(lines[li])
    /\ IF li = Len(lines) /\ text[Len(text)] \notin LineSeps
       THEN UNCHANGED <<output, total_seconds, buffer>>
       ELSE SetEnv([end_of_line(Env) EXCEPT !.buffer = <<>>])
    /\ li' = li + 1
    /\ ci' = 1
    /\ UNCHANGED <<text, focus_delay, sleep, lines, pc>>
    /\ UNCHANGED <<codecVars, mainVars, callVars, toolVars>>

\* lines 113-117, and line 94 for the next line
XteEndOfLine ==
    /\ pc = "loop"
    /\ li <= Len(lines)
    /\ ci > Len(lines[li])
    /\ SetEnv([end_of_line(Env) EXCEPT !.buffer = <<>>])
    /\ li' = li + 1
    /\ ci' = 1
    /\ UNCHANGED <<text, focus_delay, sleep, lines, pc>>
    /\ UNCHANGED <<codecVars, mainVars, callVars, toolVars>>

\* line 119
XteReturn ==
    /\ pc = "loop"
    /\ li > Len(lines)
    /\ pc' = "done"
    /\ UNCHANGED <<xteVars, codecVars, mainVars, callVars, toolVars>>

XteNext ==
    \/ XteBegin
    \/ XteSpecialChar
    \/ XteLiteralChar
    \/ XteEndOfLine
    \/ XteReturn

SpecXte == XteInit /\ [][XteNext]_vars

\* the step-by-step run ends where the function does
XteStepsAgree ==
    pc = "done" =>
        <<output, total_seconds>> = encode_xte(text, focus_delay, sleep)

----------------------------------------------------------------------------
(* main of exe_to_ps1.py and of exe_to_xte_script_ps1.py *)

\* the path kept whole, directories included
basename_whole(p) == p

\* os.path.basename: what follows the last slash
basename(p) ==
    LET slashes == {i \in 1..Len(p) : p[i] = "/"}
    IN  IF slashes = {} THEN p
        ELSE SubSeq(p, (CHOOSE i \in slashes : \A j \in slashes : j <= i) + 1,
                    Len(p))

\* what main writes to the output file: the script, or its xte encoding
Artifact == IF tool = "xte" THEN output ELSE ps_script

MainInfiles == {<<"p">>, <<"d", "/", "p">>}

MainArgNames == {None, Some(<<>>), Some(<<"b">>)}

MainInputs == {Absent, File(<<>>), File(<<97>>)}

\* what open(infile, 'rb'), open(outfile, 'w') and f.write raise
ReadErrors == {"FileNotFoundError", "PermissionError"}
OpenErrors == {"FileNotFoundError", "PermissionError"}
WriteErrors == {"OSError"}

\* line 152 (54): the text written to stderr, with the exception in it
FailedToWrite(e) == [msg |-> "Failed to write output", cause |-> e]

MainInit ==
    /\ tool \in {"ps1", "xte"}
    /\ infile \in MainInfiles
    /\ arg_bin_name \in MainArgNames
    /\ in_file \in MainInputs
    /\ outfile0 \in {Absent, File(<<"old">>)}
    /\ outfile = outfile0
    /\ stdout = <<>>
    /\ stderr = <<>>
    /\ exit_status = Running
    /\ exc = None
    /\ CallsIdle
    /\ ToolsIdle
    /\ data = <<>>
    /\ output_bin_name = <<>>
    /\ b64_data = <<>>
    /\ ps_script = <<>>
    /\ target_bytes = NoBytes
    /\ text = <<>>
    /\ focus_delay = IF tool = "xte" THEN 10 * Second ELSE 0
    /\ sleep = IF tool = "xte" THEN 2 * RateOne ELSE 0
    /\ lines = <<>>
    /\ li = 0
    /\ ci = 0
    /\ buffer = <<>>
    /\ output = <<>>
    /\ total_seconds = 0
    /\ pc = "args"

\* what no step of main changes
mainEnv == <<infile, arg_bin_name, in_file, outfile0, callVars, toolVars>>

xteLoopVars == <<text, focus_delay, sleep, lines, li, ci, buffer>>

\* lines 128-134 (34-38): the name on the target is the option, or else
\* the base name of the input path
MainParseArgs ==
    /\ pc = "args"
    /\ output_bin_name' = IF arg_bin_name.given /\ arg_bin_name.value # <<>>
                          THEN arg_bin_name.value
                          ELSE basename(infile)
    /\ pc' = "read"
    /\ UNCHANGED <<mainEnv, outfile, stdout, stderr, exit_status, exc>>
    /\ UNCHANGED <<tool, data, b64_data, ps_script, target_bytes>>
    /\ UNCHANGED <<xteLoopVars, output, total_seconds>>

\* lines 136-138 (40-42): the input file is read
MainReadInput ==
    /\ pc = "read"
    /\ in_file.exists
    /\ data' = in_file.content
    /\ pc' = "encode"
    /\ UNCHANGED <<mainEnv, outfile, stdout, stderr, exit_status, exc>>
    /\ UNCHANGED <<tool, output_bin_name, b64_data, ps_script, target_bytes>>
    /\ UNCHANGED <<xteLoopVars, output, total_seconds>>

\* the failure of the read swallowed, the run going on with no data
MainReadFails_swallowed ==
    /\ pc = "read"
    /\ ~in_file.exists
    /\ \E e \in ReadErrors : exc' = Some(e)
    /\ data' = <<>>
    /\ pc' = "encode"
    /\ UNCHANGED <<mainEnv, outfile, stdout, stderr, exit_status>>
    /\ UNCHANGED <<tool, output_bin_name, b64_data, ps_script, target_bytes>>
    /\ UNCHANGED <<xteLoopVars, output, total_seconds>>

\* lines 139-140 (43-44): it cannot be: exit(1)
MainReadFails ==
    /\ pc = "read"
    /\ ~in_file.exists
    /\ \E e \in ReadErrors : exc' = Some(e)
    /\ exit_status' = Exited(1)
    /\ pc' = "exit"
    /\ UNCHANGED <<mainEnv, outfile, stdout, stderr>>
    /\ UNCHANGED codecVars
    /\ UNCHANGED <<xteLoopVars, output, total_seconds>>

\* line 142 (46)
MainEncode ==
    /\ pc = "encode"
    /\ b64_data' = compress_and_encode(data)
    /\ pc' = "template"
    /\ UNCHANGED <<mainEnv, outfile, stdout, stderr, exit_status, exc>>
    /\ UNCHANGED <<tool, data, output_bin_name, ps_script, target_bytes>>
    /\ UNCHANGED <<xteLoopVars, output, total_seconds>>

\* line 143 (47)
MainTemplate ==
    /\ pc = "template"
    /\ ps_script' = generate_powershell_script(tool, b64_data,
                                               output_bin_name)
    /\ pc' = IF tool = "xte" THEN "xte" ELSE "open"
    /\ UNCHANGED <<mainEnv, outfile, stdout, stderr, exit_status, exc>>
    /\ UNCHANGED <<tool, data, output_bin_name, b64_data, target_bytes>>
    /\ UNCHANGED <<xteLoopVars, output, total_seconds>>

\* lines 144-145 of exe_to_xte_script_ps1.py: the script is encoded and
\* the estimate printed
MainEncodeXte ==
    /\ pc = "xte"
    /\ LET r == encode_xte(ps_script, focus_delay, sleep)
       IN  /\ output' = r[1]
           /\ total_seconds' = r[2]
    /\ stdout' = Append(stdout, "estimated time")
    /\ pc' = "open"
    /\ UNCHANGED <<mainEnv, outfile, stderr, exit_status, exc>>
    /\ UNCHANGED codecVars
    /\ UNCHANGED xteLoopVars

\* the success confirmation printed as soon as the file is open
MainOpenOutput_confirming ==
    /\ pc = "open"
    /\ outfile' = File(<<>>)
    /\ stdout' = Append(stdout, "Wrote the script")
    /\ pc' = "write"
    /\ UNCHANGED <<mainEnv, stderr, exit_status, exc>>
    /\ UNCHANGED codecVars
    /\ UNCHANGED <<xteLoopVars, output, total_seconds>>

\* line 148 (50): open creates the file or empties it
MainOpenOutput ==
    /\ pc = "open"
    /\ outfile' = File(<<>>)
    /\ pc' = "write"
    /\ UNCHANGED <<mainEnv, stdout, stderr, exit_status, exc>>
    /\ UNCHANGED codecVars
    /\ UNCHANGED <<xteLoopVars, output, total_seconds>>

\* lines 148, 151-153 (50, 53-55): open raises
MainOpenFails ==
    /\ pc = "open"
    /\ \E e \in OpenErrors :
          /\ exc' = Some(e)
          /\ stderr' = Append(stderr, FailedToWrite(e))
    /\ exit_status' = Exited(1)
    /\ pc' = "exit"
    /\ UNCHANGED <<mainEnv, outfile, stdout>>
    /\ UNCHANGED codecVars
    /\ UNCHANGED <<xteLoopVars, output, total_seconds>>

\* line 149 (51) and the close of the with block: all is written
MainWrite ==
    /\ pc = "write"
    /\ outfile' = File(Artifact)
    /\ pc' = "written"
    /\ UNCHANGED <<mainEnv, stdout, stderr, exit_status, exc>>
    /\ UNCHANGED codecVars
    /\ UNCHANGED <<xteLoopVars, output, total_seconds>>

\* lines 149, 151-153 (51, 53-55): the write or the flush at the close
\* raises (no space left, I/O error) with part of the artifact written
MainWriteFails ==
    /\ pc = "write"
    /\ \E k \in {0, Len(Artifact) \div 2} :
          outfile' = File(SubSeq(Artifact, 1, k))
    /\ \E e \in WriteErrors :
          /\ exc' = Some(e)
          /\ stderr' = Append(stderr, FailedToWrite(e))
    /\ exit_status' = Exited(1)
    /\ pc' = "exit"
    /\ UNCHANGED <<mainEnv, stdout>>
    /\ UNCHANGED codecVars
    /\ UNCHANGED <<xteLoopVars, output, total_seconds>>

\* line 150 (52), and the return of main
MainPrintWrote ==
    /\ pc = "written"
    /\ stdout' = Append(stdout, "Wrote the script")
    /\ exit_status' = Exited(0)
    /\ pc' = "exit"
    /\ UNCHANGED <<mainEnv, outfile, stderr, exc>>
    /\ UNCHANGED codecVars
    /\ UNCHANGED <<xteLoopVars, output, total_seconds>>

MainNext ==
    \/ MainParseArgs
    \/ MainReadInput
    \/ MainReadFails
    \/ MainEncode
    \/ MainTemplate
    \/ MainEncodeXte
    \/ MainOpenOutput
    \/ MainOpenFails
    \/ MainWrite
    \/ MainWriteFails
    \/ MainPrintWrote

SpecMain == MainInit /\ [][MainNext]_vars

----------------------------------------------------------------------------
(* Claims about encode_xte, checked under SpecXte *)

IsOp(ins, o) == ins.op = o

CountOp(seq, o) == Cardinality({i \in 1..Len(seq) : IsOp(seq[i], o)})

IsReturn(ins) == IsOp(ins, "key") /\ ins.arg = "Return"

CountReturn(seq) == Cardinality({i \in 1..Len(seq) : IsReturn(seq[i])})

IsUsleepOf(ins, d) == IsOp(ins, "usleep") /\ ins.dur = d

RECURSIVE SumDur(_)
SumDur(seq) ==
    IF seq = <<>> THEN 0
    ELSE (IF IsOp(Head(seq), "usleep") THEN Head(seq).dur ELSE 0)
         + SumDur(Tail(seq))

RECURSIVE SumUs(_)
SumUs(seq) ==
    IF seq = <<>> THEN 0
    ELSE (IF IsOp(Head(seq), "usleep") THEN Head(seq).us ELSE 0)
         + SumUs(Tail(seq))

NoSpecialChar(t) == \A i \in 1..Len(t) : ~InSpecialKeyMap(t[i])

NoEmptyLine(ls) == \A i \in 1..Len(ls) : ls[i] # <<>>

IsChordChar(c) == InSpecialKeyMap(c) /\ special_key_map[c].kind = "chord"

IsNamedChar(c) == InSpecialKeyMap(c) /\ special_key_map[c].kind = "key"

\* C2: for a text with no character of the special-key map the script holds
\* exactly one str per line, one Return per line and no keydown or keyup.
\* (Stated for the texts without an empty line: an empty line has no
\* literal run to write.)
C2_OneLiteralRunPerLine ==
    (pc = "done" /\ NoSpecialChar(text) /\ NoEmptyLine(lines)) =>
        /\ CountOp(output, "str") = Len(lines)
        /\ CountReturn(output) = Len(lines)
        /\ CountOp(output, "keydown") = 0
        /\ CountOp(output, "keyup") = 0

\* C3: the total equals the focus delay plus the sum of the durations of
\* the pauses written after the focus pause, whatever lies between them.
C3_TimingAdditivity ==
    pc # "start" =>
        /\ IsUsleepOf(output[1], focus_delay)
        /\ total_seconds = focus_delay + SumDur(Tail(output))

C3_Witness ==
    /\ pc = "done"
    /\ CountOp(output, "usleep") >= 4
    /\ CountOp(output, "str") >= 1
    /\ CountOp(output, "keydown") >= 1
    /\ sleep # RateOne

\* C4: the total, in microseconds, equals the sum of the integer arguments
\* of all usleep instructions of the script, the focus pause included.
C4_TotalIsSumOfUsleeps ==
    pc = "done" => total_seconds = SubMicro * SumUs(output)

\* the chords of a script in order, each as the character it types
RECURSIVE ChordsOf(_)
ChordsOf(seq) ==
    IF seq = <<>> THEN <<>>
    ELSE IF IsOp(Head(seq), "keydown") /\ Len(seq) >= 2
         THEN <<<<Head(seq).arg, seq[2].arg>>>> \o ChordsOf(Tail(seq))
         ELSE ChordsOf(Tail(seq))

ChordCharsOf(t) ==
    LET cs == SelectSeq(t, IsChordChar)
    IN  [i \in 1..Len(cs) |->
            <<special_key_map[cs[i]].mod, special_key_map[cs[i]].key>>]

\* the key instructions that no keydown precedes
BareKeys(seq) ==
    {i \in 1..Len(seq) :
        IsOp(seq[i], "key") /\ (i = 1 \/ ~IsOp(seq[i - 1], "keydown"))}

\* C5: every occurrence of a chord character is written as keydown of its
\* modifier, key of its base key and keyup of the same modifier, adjacent
\* and in this order; it is written neither as a bare key nor inside a str.
C5_ChordCorrectness ==
    /\ \A i \in 1..Len(output) :
          IsOp(output[i], "keydown") =>
              /\ i + 2 <= Len(output)
              /\ IsOp(output[i + 1], "key")
              /\ IsOp(output[i + 2], "keyup")
              /\ output[i + 2].arg = output[i].arg
    /\ \A i \in 1..Len(output) :
          IsOp(output[i], "keyup") =>
              i > 2 /\ IsOp(output[i - 2], "keydown")
    /\ \A i \in 1..Len(output) :
          IsOp(output[i], "str") =>
              \A j \in 1..Len(output[i].text) :
                  ~IsChordChar(output[i].text[j])
    /\ pc = "done" =>
          /\ ChordsOf(output) = ChordCharsOf(text)
          /\ Cardinality(BareKeys(output))
                = Len(SelectSeq(text, LAMBDA c : IsNamedChar(c) /\ c # "\n"))
                  + Len(lines)

C5_Witness ==
    /\ pc = "done"
    /\ Len(SelectSeq(text, IsChordChar)) >= 2
    /\ CountOp(output, "keydown") >= 2
    /\ CountOp(output, "str") >= 1

\* the character a key or a chord types
CharOfKey(v) == CHOOSE c \in DOMAIN special_key_map : special_key_map[c] = v

\* the characters a replay of the script types, in order
RECURSIVE Replay(_)
Replay(seq) ==
    IF seq = <<>> THEN <<>>
    ELSE LET h == Head(seq)
         IN  CASE IsOp(h, "str") -> h.text \o Replay(Tail(seq))
               [] IsOp(h, "key") ->
                     <<CharOfKey(Named(h.arg))>> \o Replay(Tail(seq))
               [] IsOp(h, "keydown") ->
                     <<CharOfKey(Chord(h.arg, seq[2].arg))>>
                         \o Replay(SubSeq(seq, 4, Len(seq)))
               [] OTHER -> Replay(Tail(seq))

\* the text with every line boundary of splitlines ("\r\n" being one)
\* replaced by one "\n"; with closing, a "\n" is added after a last line
\* that has no terminator
RECURSIVE NormaliseFrom(_, _, _)
NormaliseFrom(t, i, closing) ==
    IF i > Len(t)
    THEN IF closing /\ t # <<>> /\ t[Len(t)] \notin LineSeps
         THEN <<"\n">> ELSE <<>>
    ELSE IF t[i] \in LineSeps
         THEN <<"\n">> \o
              NormaliseFrom(t,
                            IF t[i] = "\r" /\ i < Len(t) /\ t[i + 1] = "\n"
                            THEN i + 2 ELSE i + 1,
                            closing)
         ELSE <<t[i]>> \o NormaliseFrom(t, i + 1, closing)

\* C6 as claimed: the replay of the script types the characters of the
\* text in their order, a Return standing for the line break it ends, and
\* nothing else.
C6_ReplayIsText ==
    pc = "done" => Replay(output) = NormaliseFrom(text, 1, FALSE)

\* C6 as amended: the replay types the characters of the text in their
\* order, a Return standing for each line break, and one more Return after
\* a last line that the text does not terminate.
C6_ReplayIsTextClosed ==
    pc = "done" => Replay(output) = NormaliseFrom(text, 1, TRUE)

C6_Witness ==
    /\ pc = "done"
    /\ text = <<"a", "{", " ", "U+00E9">>
    /\ Replay(output) = <<"a", "{", " ", "U+00E9", "\n">>

\* C7: the text "echo hi\n" with focus delay 1.0 and multiplier 1.0 yields
\* the pause 1.0 s, str echo, the flush pause, key space, the key pause,
\* str hi, the flush pause, key Return, the line pause.
C7_EchoHiScenario ==
    (pc = "done" /\ text = EchoHi /\ focus_delay = Second /\ sleep = RateOne)
        => output = <<InstrUsleep(Second),
                      InstrStr(<<"e", "c", "h", "o">>),
                      InstrUsleep(FLUSH_PAUSE * RateOne),
                      InstrKey("space"),
                      InstrUsleep(KEY_PAUSE * RateOne),
                      InstrStr(<<"h", "i">>),
                      InstrUsleep(FLUSH_PAUSE * RateOne),
                      InstrKey("Return"),
                      InstrUsleep(LINE_PAUSE * RateOne)>>

\* C8: an empty line writes its Return and the line pause and nothing else;
\* the text "\n\n" yields two Returns, no str and no flush pause.
C8_EmptyLine ==
    /\ (pc = "loop" /\ li > 1 /\ ci = 1 /\ lines[li - 1] = <<>>) =>
          LET n == Len(output)
          IN  /\ n >= 3
              /\ IsUsleepOf(output[n], LINE_PAUSE * sleep)
              /\ IsReturn(output[n - 1])
              /\ IF li = 2
                 THEN n = 3
                 ELSE /\ IsUsleepOf(output[n - 2], LINE_PAUSE * sleep)
                      /\ IsReturn(output[n - 3])
    /\ (pc = "done" /\ text = <<"\n", "\n">>) =>
          output = <<InstrUsleep(focus_delay),
                     InstrKey("Return"), InstrUsleep(LINE_PAUSE * sleep),
                     InstrKey("Return"), InstrUsleep(LINE_PAUSE * sleep)>>

C8_Witness ==
    /\ pc = "done"
    /\ text = <<"\n", "\n">>
    /\ CountReturn(output) = 2
    /\ CountOp(output, "str") = 0

----------------------------------------------------------------------------
(* Claims about the dropper, checked under SpecCodec *)

\* C1: decoding compress_and_encode(B), skipping exactly the first 2 bytes
\* (the zlib header) and decompressing the rest as a raw deflate stream
\* yields B; the script on the target hands its decompressor the decoded
\* buffer from offset 2 on, Length - 2 bytes of it.
C1_RoundTrip ==
    /\ pc \in {"template", "script", "ran"} =>
          LET decoded == FromBase64String(b64_data)
          IN  /\ decoded = zlib_compress(data)
              /\ SubSeq(decoded, 1, 2) = ZlibHeader
              /\ DeflateStreamDecompress(SubSeq(decoded, 3, Len(decoded)))
                    = Bytes(data)
              /\ MemoryStreamWrite(decoded, MsWriteOffset,
                                   MsWriteCount(Len(decoded)))
                    = SubSeq(decoded, 3, Len(decoded))
    /\ pc = "ran" => target_bytes = Bytes(data)

C1_Witness ==
    /\ pc = "ran"
    /\ data = <<97, 255>>
    /\ target_bytes = Bytes(<<97, 255>>)

\* How PowerShell reads a double-quoted string: a grave accent escapes the
\* character after it, a doubled quote is a quote, a dollar sign before the
\* start of a variable or of a subexpression expands, a quote ends it.
PsLetters == {B64Alphabet[i] : i \in 1..52}

PsExpands(c) == c \in PsLetters \cup {"_", "(", "{", "$", "?", "^"}

\* one character of the scan: st.close is the closing quote once it is
\* found, st.skip says that this character was taken by the one before it
PsChar(st, s, i) ==
    IF st.close # 0 THEN st
    ELSE IF st.skip THEN [st EXCEPT !.skip = FALSE]
    ELSE IF s[i] = "U+0060"
         THEN [st EXCEPT !.active = @ \cup {i}, !.skip = TRUE]
    ELSE IF s[i] = "\""
         THEN IF i < Len(s) /\ s[i + 1] = "\""
              THEN [st EXCEPT !.active = @ \cup {i}, !.skip = TRUE]
              ELSE [st EXCEPT !.close = i]
    ELSE IF s[i] = "$" /\ i < Len(s) /\ PsExpands(s[i + 1])
         THEN [st EXCEPT !.active = @ \cup {i}]
    ELSE st

\* the characters lo..hi, from left to right
RECURSIVE PsFold(_, _, _, _)
PsFold(st, s, lo, hi) ==
    IF lo > hi THEN st
    ELSE IF lo = hi THEN PsChar(st, s, lo)
    ELSE LET left == PsFold(st, s, lo, (lo + hi) \div 2)
         IN  IF Computed(left)
             THEN PsFold(left, s, (lo + hi) \div 2 + 1, hi)
             ELSE left

\* the scan of a literal from position i, just after its opening quote:
\* where its closing quote is (0 when there is none) and the positions
\* read as something other than the character itself
PsScan(s, i, active) ==
    LET st == PsFold([close |-> 0, active |-> active, skip |-> FALSE],
                     s, i, Len(s))
    IN  [close |-> st.close, active |-> st.active]

\* where the output file name starts in the script
NameStart(tl, encoded) ==
    IF tl = "xte" THEN Len(XTE_HEAD) + Len(encoded) + Len(XTE_MID) + 1
    ELSE Len(PS1_HEAD) + Len(encoded) + Len(PS1_MID) + 1

\* the opening quote of the literal the name is written into
PathLiteralOpen(s, ns) ==
    CHOOSE i \in 1..(ns - 1) :
        s[i] = "\"" /\ \A j \in (i + 1)..(ns - 1) : s[j] # "\""

\* C9: whatever printable output file name is given, the string literal
\* of the script that holds it ends at the quote the template closes it
\* with, and every character of the name is read as itself.
C9_NameStaysLiteral ==
    pc \in {"script", "ran"} =>
        LET ns == NameStart(tool, b64_data)
            ne == ns + Len(output_bin_name) - 1
            scan == PsScan(ps_script, PathLiteralOpen(ps_script, ns) + 1, {})
        IN  /\ SubSeq(ps_script, ns, ne) = output_bin_name
            /\ scan.close = ne + 1
            /\ scan.active \cap ns..ne = {}

\* the same for the names that hold no quote, dollar sign or grave accent:
\* the model of the literal reads them as the template means them
PlainNamesStayLiteral ==
    (/\ pc \in {"script", "ran"}
     /\ \A i \in 1..Len(output_bin_name) :
           output_bin_name[i] \notin {"\"", "$", "U+0060"})
        => C9_NameStaysLiteral

----------------------------------------------------------------------------
(* Claims about main, checked under SpecMain *)

\* C10: a run that fails, reading the input or writing the output, leaves
\* the output path as it was: absent, or with its earlier content.
C10_FailedRunLeavesOutput ==
    (exit_status.exited /\ exit_status.code # 0) => outfile = outfile0

\* a run that succeeds leaves the whole artifact at the output path
SuccessWritesArtifact ==
    (exit_status.exited /\ exit_status.code = 0) => outfile = File(Artifact)

\* the run has ended in failure
Failed == exit_status.exited /\ exit_status.code # 0

\* a text main wrote to stderr names the exception e
Reports(e) == \E i \in 1..Len(stderr) : stderr[i].cause = e

\* C11: every run that fails, on the input file as on the output file, has
\* printed the cause of the failure and has a non-zero exit status.
C11_FailuresPrintCause ==
    (pc = "exit" /\ exc.given) => (Failed /\ Reports(exc.value))

\* C12: when the input file cannot be read the run ends with a non-zero
\* status and nothing else: the output path is as it was before the run (not
\* opened, created or emptied), no encoding, script or xte instruction has
\* been computed and nothing has been printed.
C12_ReadFailureBeforeOutput ==
    ~in_file.exists =>
        /\ pc \in {"args", "read", "exit"}
        /\ outfile = outfile0
        /\ b64_data = <<>>
        /\ ps_script = <<>>
        /\ output = <<>>
        /\ total_seconds = 0
        /\ stdout = <<>>
        /\ pc = "exit" => Failed

C12_Witness ==
    /\ ~in_file.exists
    /\ pc = "exit"
    /\ Failed
    /\ exc.given
    /\ outfile0 = File(<<"old">>)
    /\ outfile = outfile0

\* main has printed its success confirmation
ConfirmedSuccess == \E i \in 1..Len(stdout) : stdout[i] = "Wrote the script"

\* C13: a run that fails on the output file has written the exception to
\* stderr, ends with a non-zero status, has all its compute stages behind it
\* and has not printed the success confirmation; the confirmation is printed
\* only with the whole artifact in the output file, and on no failing run.
C13_WriteFailureReported ==
    /\ (pc = "exit" /\ exc.given /\ in_file.exists) =>
          /\ Failed
          /\ Reports(exc.value)
          /\ b64_data = compress_and_encode(data)
          /\ ps_script = generate_powershell_script(tool, b64_data,
                                                    output_bin_name)
          /\ tool = "xte" =>
                <<output, total_seconds>>
                    = encode_xte(ps_script, focus_delay, sleep)
          /\ ~ConfirmedSuccess
    /\ ConfirmedSuccess =>
          /\ outfile = File(Artifact)
          /\ ~exc.given
          /\ exit_status = Exited(0)

C13_Witness ==
    /\ pc = "exit"
    /\ tool = "xte"
    /\ exc = Some("OSError")
    /\ outfile.exists
    /\ outfile.content # <<>>
    /\ outfile.content # Artifact
    /\ Reports("OSError")

----------------------------------------------------------------------------
(* More claims about encode_xte, checked under SpecXte *)

\* the pauses encode_xte writes after an event, at the multiplier sl
EventPauses(sl) == {STR_PAUSE * sl, KEY_PAUSE * sl, LINE_PAUSE * sl}

\* C14: whatever the text, the empty one included, the first instruction of
\* the script is the pause of focus_delay, unscaled; every later pause
\* follows a str, key or keyup and is that event's scaled pause, so that the
\* focus pause is written once and before every str and key.
C14_FocusPauseFirst ==
    /\ pc = "start" => output = <<>>
    /\ pc # "start" =>
          /\ Len(output) >= 1
          /\ output[1] = InstrUsleep(focus_delay)
          /\ output[1].us = ToMicros(focus_delay)
          /\ \A i \in 2..Len(output) :
                IsOp(output[i], "usleep") =>
                    /\ ~IsOp(output[i - 1], "usleep")
                    /\ output[i].dur \in EventPauses(sleep)
    /\ (pc = "done" /\ text = <<>>) => output = <<InstrUsleep(focus_delay)>>

C14_Witness ==
    /\ pc = "done"
    /\ text = <<>>
    /\ sleep # RateOne
    /\ focus_delay \notin EventPauses(sleep)
    /\ output = <<InstrUsleep(focus_delay)>>

\* how many instructions the first n characters of a line take: a chord and
\* its pause four, a key or a str and its pause two
RECURSIVE CharEvents(_, _)
CharEvents(line, n) ==
    IF n = 0 THEN 0
    ELSE (IF IsChordChar(line[n]) THEN 4 ELSE 2) + CharEvents(line, n - 1)

\* where the Return of line k stands in the script: after the focus pause,
\* the earlier lines with their Return and line pause, and the line itself
RECURSIVE ReturnPos(_, _)
ReturnPos(ls, k) ==
    (IF k = 1 THEN 1 ELSE ReturnPos(ls, k - 1) + 1)
        + CharEvents(ls[k], Len(ls[k])) + 1

\* the instructions of the characters of line k
LineSegment(seq, ls, k) ==
    SubSeq(seq, IF k = 1 THEN 2 ELSE ReturnPos(ls, k - 1) + 2,
           ReturnPos(ls, k) - 1)

\* C15: the Returns of the script are those of the lines ended so far, one
\* for each; each stands right after the instructions of its line's
\* characters and right before one line pause, and nothing is pending when it
\* is written; at the end there are as many as the text has lines, also when
\* the text does not terminate its last line.
C15_ReturnPerLine ==
    pc \in {"loop", "done"} =>
        /\ CountReturn(output) = li - 1
        /\ (li > 1 /\ ci = 1) =>
              /\ IsReturn(output[Len(output) - 1])
              /\ output[Len(output)] = InstrUsleep(LINE_PAUSE * sleep)
        /\ pc = "done" =>
              /\ {i \in 1..Len(output) : IsReturn(output[i])}
                    = {ReturnPos(lines, k) : k \in 1..Len(lines)}
              /\ \A k \in 1..Len(lines) :
                    /\ output[ReturnPos(lines, k) + 1]
                          = InstrUsleep(LINE_PAUSE * sleep)
                    /\ Replay(LineSegment(output, lines, k)) = lines[k]
        /\ buffer = <<>>
        /\ Len(output)
              = (IF li = 1 THEN 1 ELSE ReturnPos(lines, li - 1) + 1)
                + (IF li <= Len(lines) THEN CharEvents(lines[li], ci - 1)
                   ELSE 0)
        /\ pc = "done" =>
              /\ lines = splitlines(text)
              /\ CountReturn(output) = Len(lines)

C15_Witness ==
    /\ pc = "done"
    /\ text = <<"a", "\n", "{", "a">>
    /\ Len(lines) = 2
    /\ CountReturn(output) = 2
    /\ IsReturn(output[Len(output) - 1])
    /\ output[Len(output)] = InstrUsleep(LINE_PAUSE * sleep)

\* the characters of the alphabet that are not ASCII-printable: control
\* characters and code points above U+007E
NotAsciiPrintable == LineSeps \cup {"\t", "U+00E9"}

\* the characters the str instructions of a script type, in order
RECURSIVE StrChars(_)
StrChars(seq) ==
    IF seq = <<>> THEN <<>>
    ELSE (IF IsOp(Head(seq), "str") THEN Head(seq).text ELSE <<>>)
         \o StrChars(Tail(seq))

Occurrences(t, c) == Cardinality({i \in 1..Len(t) : t[i] = c})

\* C16: every character of the text that is neither in the special-key map
\* nor ASCII-printable is typed by a str instruction, as often as the text
\* holds it: none is dropped, none becomes a key.
C16_NonPrintableLiteral ==
    pc = "done" =>
        \A c \in NotAsciiPrintable \ DOMAIN special_key_map :
            Occurrences(StrChars(output), c) = Occurrences(text, c)

\* the same for the unmapped characters that are no line boundary of
\* splitlines, printable or not
UnmappedNonBoundaryLiteral ==
    pc = "done" =>
        \A c \in XteAlphabet \ (DOMAIN special_key_map \cup LineSeps) :
            Occurrences(StrChars(output), c) = Occurrences(text, c)

\* the pause constant of the event a pause follows: a str, the keyup of a
\* chord, the Return of a line, any other key
PauseConst(ins) ==
    CASE IsOp(ins, "str") -> STR_PAUSE
      [] IsOp(ins, "keyup") -> KEY_PAUSE
      [] IsReturn(ins) -> LINE_PAUSE
      [] IsOp(ins, "key") -> KEY_PAUSE
      [] OTHER -> 0

\* the sum of the pause constants of the events of a script
RECURSIVE SumConst(_, _)
SumConst(seq, i) ==
    IF i > Len(seq) THEN 0
    ELSE (IF IsOp(seq[i], "usleep") THEN PauseConst(seq[i - 1]) ELSE 0)
         + SumConst(seq, i + 1)

\* what a character of the special-key map is written as, pause included
Typed(c, sl) ==
    LET key == special_key_map[c]
    IN  (IF key.kind = "chord"
         THEN <<InstrKeyDown(key.mod), InstrKey(key.key), InstrKeyUp(key.mod)>>
         ELSE <<InstrKey(key.key)>>)
        \o <<InstrUsleep(KEY_PAUSE * sl)>>

\* C17: a character of the special-key map has just been written as its key
\* or chord followed by the key pause times the multiplier, with no run
\* pending before it and none flushed; every pause after the focus pause is
\* the constant of the event before it times the multiplier, and so the
\* total less the focus delay is the multiplier times a sum of constants.
\* Were a run pending (the code never fills one), lines 96-108 would write
\* it as one str with the flush pause times the multiplier, then the key.
C17_PausesScaled ==
    pc \in {"loop", "done"} =>
        /\ (/\ li <= Len(lines)
            /\ ci > 1
            /\ InSpecialKeyMap(lines[li][ci - 1])) =>
              LET typed == Typed(lines[li][ci - 1], sleep)
                  n == Len(output)
              IN  /\ n > Len(typed)
                  /\ SubSeq(output, n - Len(typed) + 1, n) = typed
                  /\ IsOp(output[n - Len(typed)], "usleep")
        /\ buffer = <<>>
        /\ total_seconds - focus_delay = sleep * SumConst(output, 2)
        /\ pc = "done" => \A i \in 2..Len(output) :
              IsOp(output[i], "usleep") =>
                  /\ PauseConst(output[i - 1]) # 0
                  /\ output[i] = InstrUsleep(PauseConst(output[i - 1]) * sleep)
        /\ pc = "done" => \A i \in 1..Len(output) :
              (PauseConst(output[i]) # 0
                  /\ ~(i < Len(output) /\ IsOp(output[i + 1], "keyup"))) =>
                  (i < Len(output) /\ IsOp(output[i + 1], "usleep"))
        /\ pc = "done" => \A c \in {" ", "{"} :
              LET pending == [Env EXCEPT !.buffer = <<"a", "a">>]
                  e == special_char(pending, c)
              IN  /\ e.output
                        = output \o <<InstrStr(<<"a", "a">>),
                                      InstrUsleep(FLUSH_PAUSE * sleep)>>
                                 \o Typed(c, sleep)
                  /\ e.buffer = <<>>
                  /\ e.total_seconds
                        = total_seconds + (FLUSH_PAUSE + KEY_PAUSE) * sleep

C17_Witness ==
    /\ pc = "done"
    /\ text = <<"a", "{", " ", "\n">>
    /\ sleep = 2 * RateOne + 1
    /\ total_seconds - focus_delay
          = sleep * (STR_PAUSE + KEY_PAUSE + KEY_PAUSE + LINE_PAUSE)
    /\ Len(output) = 11

----------------------------------------------------------------------------
(* More claims about the dropper, checked under SpecCodec *)

\* where t occurs in s
OccursAt(s, t) ==
    {i \in 1..(Len(s) - Len(t) + 1) :
        /\ s[i] = t[1]
        /\ s[i + Len(t) - 1] = t[Len(t)]
        /\ SubSeq(s, i, i + Len(t) - 1) = t}

\* the opening of the literal of $b64
B64Open == <<"$", "b", "6", "4", " ", "=", " ", "\"">>

\* C18: the script holds the encoded text once, unchanged, as the whole
\* content of the $b64 literal, and the output name at its one place; with
\* both taken out, what is left is the same text whatever the inputs.
C18_TemplateKeepsEncodedText ==
    pc = "script" =>
        LET blank == generate_powershell_script(tool, <<>>, <<>>)
            ns == NameStart(tool, b64_data)
            ne == ns + Len(output_bin_name) - 1
            bs == CHOOSE i \in OccursAt(ps_script, B64Open) :
                      \A j \in OccursAt(ps_script, B64Open) : i <= j
            b1 == bs + Len(B64Open)
            bn == b1 + Len(b64_data) - 1
        IN  /\ b64_data = compress_and_encode(data)
            /\ Cardinality(OccursAt(ps_script, B64Open)) = 1
            /\ OccursAt(ps_script, b64_data) = {b1}
            /\ ps_script[bn + 1] = "\""
            /\ B64Literal(tool, ps_script) = b64_data
            /\ SubSeq(ps_script, ns, ne) = output_bin_name
            /\ bn < ns
            /\ SubSeq(ps_script, 1, b1 - 1)
                  \o SubSeq(ps_script, bn + 1, ns - 1)
                  \o SubSeq(ps_script, ne + 1, Len(ps_script)) = blank
            /\ Len(ps_script)
                  = Len(blank) + Len(b64_data) + Len(output_bin_name)

C18_Witness ==
    /\ pc = "script"
    /\ tool = "ps1"
    /\ data = <<97, 144>>
    /\ b64_data[Len(b64_data)] = "="
    /\ output_bin_name = <<"a", ".">>
    /\ B64Literal(tool, ps_script) = b64_data

----------------------------------------------------------------------------
(* Claims about repeated calls, checked under SpecCalls *)

\* the calls that have returned
Returned == {i \in 1..Len(calls) : i < Len(calls) \/ pc = "call"}

\* C19: two calls of compress_and_encode with the same bytes return the same
\* text, whatever was called between them; what a call returns is fixed by
\* its argument alone.
C19_Determinism ==
    /\ \A i \in Returned : \A j \in Returned :
          calls[i].data = calls[j].data => calls[i].result = calls[j].result
    /\ \A i \in Returned :
          /\ calls[i].result = compress_and_encode(calls[i].data)
          /\ FromBase64String(calls[i].result) = calls[i].compressed

C19_Witness ==
    /\ pc = "call"
    /\ Len(calls) = 3
    /\ data = <<97, 255>>
    /\ calls[1].data = data
    /\ calls[2].data # data
    /\ calls[3].data = data
    /\ calls[3].result = calls[1].result
    /\ calls[3].result # <<>>

----------------------------------------------------------------------------
(* More claims about main, checked under SpecMain *)

\* the file name the script holds: what stands between the text before the
\* name and the tail of the template
EmbeddedName ==
    SubSeq(ps_script, NameStart(tool, b64_data),
           Len(ps_script)
               - Len(IF tool = "xte" THEN XTE_TAIL ELSE PS1_TAIL))

\* C20 as claimed: the name in the script is the value of the option
\* whenever the option is given, and the base name of the input path exactly
\* when it is not.
C20_OutputNameDefault ==
    ps_script # <<>> =>
        EmbeddedName = IF arg_bin_name.given THEN arg_bin_name.value
                       ELSE basename(infile)

\* C20 as amended: the name in the script is the value of the option when
\* the option is given and not empty; it is the base name of the input path,
\* with no directory left in it, when the option is not given or is empty.
C20_OutputNameDefaultNonEmpty ==
    ps_script # <<>> =>
        /\ EmbeddedName = output_bin_name
        /\ IF arg_bin_name.given /\ arg_bin_name.value # <<>>
           THEN EmbeddedName = arg_bin_name.value
           ELSE /\ EmbeddedName = basename(infile)
                /\ \A i \in 1..Len(EmbeddedName) : EmbeddedName[i] # "/"
                /\ \E k \in 0..Len(infile) :
                      /\ SubSeq(infile, k + 1, Len(infile)) = EmbeddedName
                      /\ k > 0 => infile[k] = "/"

C20_Witness ==
    /\ pc = "exit"
    /\ exit_status = Exited(0)
    /\ arg_bin_name = None
    /\ infile = <<"d", "/", "p">>
    /\ EmbeddedName = <<"p">>

----------------------------------------------------------------------------
(* Claims about the cadence of the script, checked under SpecXte *)

\* how many instructions the input action at position i takes: a chord
\* three, a str or a key one; 0 when no action starts there
ActionLen(seq, i) ==
    IF IsOp(seq[i], "str") \/ IsOp(seq[i], "key") THEN 1
    ELSE IF /\ IsOp(seq[i], "keydown")
            /\ i + 2 <= Len(seq)
            /\ IsOp(seq[i + 1], "key")
            /\ IsOp(seq[i + 2], "keyup")
         THEN 3
         ELSE 0

\* from position i on the script is a run of input actions, each followed
\* by one usleep, and nothing else
RECURSIVE Paced(_, _)
Paced(seq, i) ==
    IF i > Len(seq) THEN TRUE
    ELSE LET n == ActionLen(seq, i)
         IN  /\ n > 0
             /\ i + n <= Len(seq)
             /\ IsOp(seq[i + n], "usleep")
             /\ Paced(seq, i + n + 1)

\* C21: the script is the focus pause followed by input actions (a str, a
\* key, a whole chord) with exactly one usleep after each: one usleep between
\* any two consecutive actions, none inside a chord, a usleep at the end.
C21_RateLimiting ==
    pc \in {"loop", "done"} =>
        /\ IsOp(output[1], "usleep")
        /\ IsOp(output[Len(output)], "usleep")
        /\ pc = "done" => Paced(output, 2)

C21_Witness ==
    /\ pc = "done"
    /\ text = <<"a", "{", " ", "a">>
    /\ Len(output) = 13
    /\ CountOp(output, "usleep") = 6
    /\ Paced(output, 2)

\* the modifiers held after each instruction from position i on, held being
\* those held before it: never two at once, a keydown followed by one key
\* and the keyup of the same modifier, none held at a str, a usleep, a
\* Return or the end
RECURSIVE Balanced(_, _, _)
Balanced(seq, i, held) ==
    IF i > Len(seq) THEN held = <<>>
    ELSE CASE IsOp(seq[i], "keydown") ->
                /\ held = <<>>
                /\ i + 2 <= Len(seq)
                /\ IsOp(seq[i + 1], "key")
                /\ seq[i + 2] = InstrKeyUp(seq[i].arg)
                /\ Balanced(seq, i + 1, <<seq[i].arg>>)
           [] IsOp(seq[i], "keyup") ->
                /\ held = <<seq[i].arg>>
                /\ Balanced(seq, i + 1, <<>>)
           [] IsOp(seq[i], "key") ->
                /\ Len(held) <= 1
                /\ held # <<>> => (i > 1 /\ IsOp(seq[i - 1], "keydown"))
                /\ IsReturn(seq[i]) => held = <<>>
                /\ Balanced(seq, i + 1, held)
           [] OTHER ->
                /\ held = <<>>
                /\ Balanced(seq, i + 1, held)

\* C22: at every prefix of the script at most one modifier is held; every
\* keydown is followed by exactly one key and the keyup of its modifier; no
\* modifier is held at a str, a usleep, a line's Return or the end.
C22_ModifierBalance ==
    pc \in {"loop", "done"} =>
        /\ CountOp(output, "keydown") = CountOp(output, "keyup")
        /\ ~IsOp(output[Len(output)], "keydown")
        /\ pc = "done" => Balanced(output, 1, <<>>)

C22_Witness ==
    /\ pc = "done"
    /\ text = <<"{", "{", "a", "\n">>
    /\ CountOp(output, "keydown") = 2
    /\ CountOp(output, "keyup") = 2
    /\ output[2] = InstrKeyDown("Shift_L")
    /\ output[4] = InstrKeyUp("Shift_L")
    /\ Balanced(output, 1, <<>>)

\* the unmapped characters of the lines, in order
RECURSIVE UnmappedOf(_)
UnmappedOf(ls) ==
    IF ls = <<>> THEN <<>>
    ELSE SelectSeq(Head(ls), LAMBDA c : ~InSpecialKeyMap(c))
         \o UnmappedOf(Tail(ls))

\* C23: the pending run is empty in every state; neither flush has anything
\* to write and no flush pause is in the script; an unmapped character has
\* been written at once as a str of its own followed by the str pause times
\* the multiplier.
C23_BufferAlwaysEmpty ==
    /\ buffer = <<>>
    /\ pc \in {"loop", "done"} =>
          /\ flush_before_key(Env) = Env
          /\ (/\ li <= Len(lines)
              /\ ci > 1
              /\ ~InSpecialKeyMap(lines[li][ci - 1])) =>
                /\ output[Len(output) - 1] = InstrStr(<<lines[li][ci - 1]>>)
                /\ output[Len(output)] = InstrUsleep(STR_PAUSE * sleep)
          /\ pc = "done" =>
                /\ \A i \in 1..Len(output) :
                      /\ ~IsUsleepOf(output[i], FLUSH_PAUSE * sleep)
                      /\ IsOp(output[i], "str") =>
                            /\ Len(output[i].text) = 1
                            /\ output[i + 1] = InstrUsleep(STR_PAUSE * sleep)
                /\ StrChars(output) = UnmappedOf(lines)

C23_Witness ==
    /\ pc = "done"
    /\ text = <<"a", "a", " ", "a">>
    /\ CountOp(output, "str") = 3
    /\ buffer = <<>>
    /\ output[2] = InstrStr(<<"a">>)
    /\ output[3] = InstrUsleep(STR_PAUSE * sleep)
    /\ output[4] = InstrStr(<<"a">>)

----------------------------------------------------------------------------
(***************************************************************************)
(* tools/rdp2tcp-cli.py: the tunnel-management command line.               *)
(*                                                                         *)
(* The controller client (class rdp2tcp) is the environment: a call on it  *)
(* returns or raises, the model draws which.  A value that is None in      *)
(* Python is Null where the code looks at a string and 0 where it looks at *)
(* a port: the code only tests these for truth.  compression and           *)
(* bandwidth_limit are handed through untouched and are left out.          *)
(***************************************************************************)

Null == "<None>"

TruthyStr(s) == s # Null /\ s # ""
TruthyInt(n) == n # 0

\* how a call ends
Return(v) == [kind |-> "return", value |-> v, exc |-> ""]
Raise(e) == [kind |-> "raise", value |-> FALSE, exc |-> e]

\* what a call on the client can raise; OSError stands for every exception
\* that is an Exception and no R2TException
ClientRaises == {"R2TException", "OSError", "KeyboardInterrupt"}
ClientOutcomes == {"ok"} \cup ClientRaises

\* except Exception catches it
IsException(e) == e # "KeyboardInterrupt"

\* a tunnel: an entry of the configuration file, or the arguments of
\* tunnel_create
Tunnel(name, type, local_port, remote_host, remote_port, command, enabled) ==
    [name |-> name, type |-> type, local_host |-> "127.0.0.1",
     local_port |-> local_port, remote_host |-> remote_host,
     remote_port |-> remote_port, command |-> command, enabled |-> enabled]

Socks5Tunnel == Tunnel("s", "socks5", 1080, Null, 0, Null, TRUE)
TcpTunnel == Tunnel("t", "tcp", 8080, "10.0.0.1", 80, Null, TRUE)
TcpNoRemote == Tunnel("t", "tcp", 8080, Null, 0, Null, TRUE)
ProcessTunnel == Tunnel("p", "process", 9000, Null, 0, "cmd.exe", TRUE)
ProcessNoCommand == Tunnel("p", "process", 9000, Null, 0, Null, TRUE)
UdpTunnel == Tunnel("u", "udp", 5353, "10.0.0.1", 53, Null, TRUE)
DisabledTunnel == Tunnel("d", "socks5", 1081, Null, 0, Null, FALSE)
NoTypeTunnel == Tunnel("n", Null, 1082, Null, 0, Null, TRUE)

\* the arguments of tunnel_create (lines 112-115) taken from a tunnel
Arguments(t) ==
    [name |-> t.name, type |-> t.type, local_host |-> t.local_host,
     local_port |-> t.local_port, remote_host |-> t.remote_host,
     remote_port |-> t.remote_port, command |-> t.command]

\* the arguments tunnel_create is called with
CreateArgs == {Arguments(t) : t \in {Socks5Tunnel, TcpTunnel, TcpNoRemote,
                                     ProcessTunnel, ProcessNoCommand,
                                     UdpTunnel}}

\* the entries a configuration file holds
ConfigEntries == {Socks5Tunnel, TcpNoRemote, DisabledTunnel, NoTypeTunnel}

MaxTunnels == 1
MaxOps == 2
MaxPolls == 2

SeqsUpTo(S, n) == UNION {[1..k -> S] : k \in 0..n}

\* the tunnels load_config read; no file, or a file without tunnels, is <<>>
Configs == SeqsUpTo(ConfigEntries, MaxTunnels)

\* a frame of the call stack: the function, where it stands, its arguments
\* and locals, and the return value or exception a finally clause holds;
\* tunnels0 and sent0 remember config.tunnels and the number of client
\* calls at the time of the call, for the properties to refer to
Frame(fn, at, a) ==
    [fn |-> fn, at |-> at, a |-> a, i |-> 0, success_count |-> 0,
     total_count |-> 0, polls |-> 0, pending |-> NoResult,
     tunnels0 |-> config_tunnels, sent0 |-> Len(sent)]

Top == stack[Len(stack)]
Pop == SubSeq(stack, 1, Len(stack) - 1)
SetTop(f) == [stack EXCEPT ![Len(stack)] = f]
At(fn, at) == stack # <<>> /\ Top.fn = fn /\ Top.at = at

\* the operations that talk to the controller
ClientOps == {"tunnel_create", "tunnel_delete", "tunnel_list", "monitor"}

\* a call made on the client
ClientCall(cmd, type, local, remote) ==
    [cmd |-> cmd, conn |-> client.value, type |-> type, local |-> local,
     remote |-> remote]

NoAddr == <<"", 0>>

\* the call on top of the stack ends with r
Finish(r) == stack' = Pop /\ returned' = r

\* the top frame goes on at `at`, holding r for after the finally clause
Hold(at, r) == SetTop([Top EXCEPT !.at = at, !.pending = r])

\* what talking to the controller leaves alone
cliEnv == <<config_tunnels, nops, argv, args, main_calls, exit_code>>
notCli == <<xteVars, codecVars, mainVars, callVars, sockVars, pc>>

\* lines 96-104 and the test of `if not self.connect()` in the four
\* operations: a connection, or False when the constructor raised
\* R2TException; any other exception leaves connect and the operation
Connect ==
    /\ stack # <<>> /\ Top.fn \in ClientOps /\ Top.at = "connect"
    /\ \E o \in ClientOutcomes :
          \/ /\ o = "ok"
             /\ connections' = Append(connections,
                                      [op |-> nops, closes |-> 0])
             /\ client' = Some(Len(connections) + 1)
             /\ stack' = SetTop([Top EXCEPT !.at = "try"])
          \/ /\ o = "R2TException"
             /\ stack' = Hold("leave", Return(FALSE))
             /\ UNCHANGED <<connections, client>>
          \/ /\ o \in ClientRaises \ {"R2TException"}
             /\ stack' = Hold("leave", Raise(o))
             /\ UNCHANGED <<connections, client>>
    /\ UNCHANGED <<sent, returned, cliEnv, notCli>>

\* lines 118, 178, 193, 251: `return False`, or the exception goes on to
\* the caller; the try statement was not entered
NotConnected ==
    /\ stack # <<>> /\ Top.fn \in ClientOps /\ Top.at = "leave"
    /\ Finish(Top.pending)
    /\ UNCHANGED <<client, connections, sent, cliEnv, notCli>>

\* a finally clause that leaves the connection open
Disconnect_leaking ==
    /\ stack # <<>> /\ Top.fn \in ClientOps /\ Top.at = "finally"
    /\ IF Top.pending.kind = "raise"
         THEN UNCHANGED <<connections, client>>
         ELSE /\ connections' =
                     [connections EXCEPT ![client.value].closes = @ + 1]
              /\ client' = None
    /\ Finish(Top.pending)
    /\ UNCHANGED <<sent, cliEnv, notCli>>

\* lines 106-110, run by the finally clause of the four operations (lines
\* 172-173, 187-188, 213-214, 272-273): close the connection, forget it,
\* then return or raise what the try block left
Disconnect ==
    /\ stack # <<>> /\ Top.fn \in ClientOps /\ Top.at = "finally"
    /\ IF client.given
         THEN /\ connections' =
                     [connections EXCEPT ![client.value].closes = @ + 1]
              /\ client' = None
         ELSE UNCHANGED <<connections, client>>
    /\ Finish(Top.pending)
    /\ UNCHANGED <<sent, cliEnv, notCli>>

\* lines 122-127
type_map == [tcp |-> "t", reverse |-> "r", process |-> "x", socks5 |-> "s"]

\* lines 129-131, 135-138, 142-145: the arguments tunnel_create refuses
Rejects(a) ==
    \/ a.type \notin DOMAIN type_map
    \/ a.type = "process" /\ ~TruthyStr(a.command)
    \/ /\ a.type \in {"tcp", "reverse"}
       /\ ~TruthyStr(a.remote_host) \/ ~TruthyInt(a.remote_port)

\* lines 139, 141, 146: the remote address handed to add_tunnel
RemoteOf(a) ==
    IF a.type = "process" THEN <<a.command, 0>>
    ELSE IF a.type = "socks5" THEN <<"", 0>>
    ELSE <<a.remote_host, a.remote_port>>

\* lines 150-161: the TunnelConfig built from the arguments; enabled is
\* not passed and takes its default
StoredTunnel(a) ==
    [name |-> a.name, type |-> a.type, local_host |-> a.local_host,
     local_port |-> a.local_port, remote_host |-> a.remote_host,
     remote_port |-> a.remote_port, command |-> a.command,
     enabled |-> TRUE]

\* lines 129-131, 136-138, 143-145: log the error, return False
TunnelCreateRejects ==
    /\ At("tunnel_create", "try")
    /\ Rejects(Top.a)
    /\ stack' = Hold("finally", Return(FALSE))
    /\ UNCHANGED <<client, connections, sent, returned, cliEnv, notCli>>

\* a tunnel_create that stores the tunnel as it sends the command
TunnelCreateAddTunnel_storing ==
    /\ At("tunnel_create", "try")
    /\ ~Rejects(Top.a)
    /\ sent' = Append(sent,
                      ClientCall("add_tunnel", type_map[Top.a.type],
                                 <<Top.a.local_host, Top.a.local_port>>,
                                 RemoteOf(Top.a)))
    /\ config_tunnels' = Append(config_tunnels, StoredTunnel(Top.a))
    /\ \E o \in ClientOutcomes :
          stack' = IF o = "ok" THEN Hold("finally", Return(TRUE))
                   ELSE IF o = "R2TException"
                          THEN Hold("finally", Return(FALSE))
                          ELSE Hold("finally", Raise(o))
    /\ UNCHANGED <<client, connections, returned, nops, argv, args,
                   main_calls, exit_code, notCli>>

\* lines 133-147 and 169-171: the add_tunnel call and how it ends
TunnelCreateAddTunnel ==
    /\ At("tunnel_create", "try")
    /\ ~Rejects(Top.a)
    /\ sent' = Append(sent,
                      ClientCall("add_tunnel", type_map[Top.a.type],
                                 <<Top.a.local_host, Top.a.local_port>>,
                                 RemoteOf(Top.a)))
    /\ \E o \in ClientOutcomes :
          stack' = IF o = "ok" THEN SetTop([Top EXCEPT !.at = "store"])
                   ELSE IF o = "R2TException"
                          THEN Hold("finally", Return(FALSE))
                          ELSE Hold("finally", Raise(o))
    /\ UNCHANGED <<client, connections, returned, cliEnv, notCli>>

\* lines 148-167: store the tunnel, return True
TunnelCreateStore ==
    /\ At("tunnel_create", "store")
    /\ config_tunnels' = Append(config_tunnels, StoredTunnel(Top.a))
    /\ stack' = Hold("finally", Return(TRUE))
    /\ UNCHANGED <<client, connections, sent, returned, nops, argv, args,
                   main_calls, exit_code, notCli>>

\* how a try block whose client call ended with o goes on: True, False for
\* R2TException, any other exception on its way out
AfterCall(o) ==
    IF o = "ok" THEN Hold("finally", Return(TRUE))
    ELSE IF o = "R2TException" THEN Hold("finally", Return(FALSE))
    ELSE Hold("finally", Raise(o))

\* lines 180-186
TunnelDelete ==
    /\ At("tunnel_delete", "try")
    /\ sent' = Append(sent,
                      ClientCall("del_tunnel", "",
                                 <<Top.a.local_host, Top.a.local_port>>,
                                 NoAddr))
    /\ \E o \in ClientOutcomes : stack' = AfterCall(o)
    /\ UNCHANGED <<client, connections, returned, cliEnv, notCli>>

\* lines 195-212
TunnelList ==
    /\ At("tunnel_list", "try")
    /\ sent' = Append(sent, ClientCall("info", "", NoAddr, NoAddr))
    /\ \E o \in ClientOutcomes : stack' = AfterCall(o)
    /\ UNCHANGED <<client, connections, returned, cliEnv, notCli>>

\* lines 258-265: one round of the loop; KeyboardInterrupt breaks out of
\* it and monitor returns True
MonitorPoll ==
    /\ At("monitor", "try")
    /\ Top.polls < MaxPolls
    /\ sent' = Append(sent, ClientCall("info", "", NoAddr, NoAddr))
    /\ \E o \in ClientOutcomes :
          stack' = IF o = "ok" THEN SetTop([Top EXCEPT !.polls = @ + 1])
                   ELSE IF o = "KeyboardInterrupt"
                          THEN Hold("finally", Return(TRUE))
                          ELSE AfterCall(o)
    /\ UNCHANGED <<client, connections, returned, cliEnv, notCli>>

\* lines 258 and 267: the duration has passed
MonitorElapsed ==
    /\ At("monitor", "try")
    /\ stack' = Hold("finally", Return(TRUE))
    /\ UNCHANGED <<client, connections, sent, returned, cliEnv, notCli>>

\* the entry the loop of config_load_tunnels looks at: the iterator reads
\* the list as it is now
Entry == config_tunnels[Top.i]
InLoop == At("config_load_tunnels", "loop") /\ Top.i <= Len(config_tunnels)

cliState == <<config_tunnels, client, connections, sent, nops, argv, args,
              main_calls, exit_code>>

\* lines 296-301
ConfigLoadEnter ==
    /\ At("config_load_tunnels", "enter")
    /\ IF config_tunnels = <<>>
         THEN Finish(Return(TRUE))
         ELSE /\ stack' = SetTop([Top EXCEPT
                                     !.at = "loop", !.i = 1,
                                     !.success_count = 0,
                                     !.total_count = Len(config_tunnels)])
              /\ UNCHANGED returned
    /\ UNCHANGED <<cliState, notCli>>

\* lines 330-332
ConfigLoadSkipDisabled ==
    /\ InLoop
    /\ ~Entry.enabled
    /\ stack' = SetTop([Top EXCEPT !.i = @ + 1])
    /\ UNCHANGED <<returned, cliState, notCli>>

\* lines 334-336
ConfigLoadSkipInvalid ==
    /\ InLoop
    /\ Entry.enabled
    /\ ~TruthyStr(Entry.type) \/ ~TruthyInt(Entry.local_port)
    /\ stack' = SetTop([Top EXCEPT !.i = @ + 1])
    /\ UNCHANGED <<returned, cliState, notCli>>

\* lines 338-351: call tunnel_create with the fields of the entry
ConfigLoadCreate ==
    /\ InLoop
    /\ Top.i <= MaxTunnels + 1
    /\ Entry.enabled
    /\ TruthyStr(Entry.type) /\ TruthyInt(Entry.local_port)
    /\ stack' = Append(SetTop([Top EXCEPT !.at = "await"]),
                       Frame("tunnel_create", "connect", Arguments(Entry)))
    /\ UNCHANGED <<returned, cliState, notCli>>

\* lines 353-360: count a success; an Exception is logged and the loop
\* goes on, anything else leaves config_load_tunnels
ConfigLoadCounts ==
    /\ At("config_load_tunnels", "await")
    /\ IF returned.kind = "raise" /\ ~IsException(returned.exc)
         THEN Finish(returned)
         ELSE /\ stack' = SetTop([Top EXCEPT
                                     !.at = "loop", !.i = @ + 1,
                                     !.success_count =
                                         IF returned.kind = "return"
                                            /\ returned.value
                                           THEN @ + 1 ELSE @])
              /\ UNCHANGED returned
    /\ UNCHANGED <<cliState, notCli>>

\* lines 362-363
ConfigLoadReturn ==
    /\ At("config_load_tunnels", "loop")
    /\ Top.i > Len(config_tunnels)
    /\ Finish(Return(Top.success_count = Top.total_count))
    /\ UNCHANGED <<cliState, notCli>>

\* the calls a user of the cli object can make
Operations ==
    {Frame("tunnel_create", "connect", a) : a \in CreateArgs}
        \cup {Frame("tunnel_delete", "connect",
                    [local_host |-> "127.0.0.1", local_port |-> 1080]),
              Frame("tunnel_list", "connect", <<>>),
              Frame("monitor", "connect", <<>>),
              Frame("config_load_tunnels", "enter", <<>>)}

\* the object after __init__ (lines 49-56): the configuration is loaded
\* and there is no client
CliObject ==
    /\ config_tunnels \in Configs
    /\ client = None
    /\ connections = <<>>
    /\ sent = <<>>
    /\ stack = <<>>
    /\ returned = NoResult
    /\ nops = 0
    /\ main_calls = <<>>
    /\ exit_code = None

CliInit ==
    /\ CliObject
    /\ argv = <<>>
    /\ args = <<>>
    /\ XteIdle
    /\ CodecIdle
    /\ MainIdle
    /\ CallsIdle
    /\ SocksIdle
    /\ pc = "cli"

\* one more operation is called on the object
CallOperation ==
    /\ pc = "cli"
    /\ stack = <<>>
    /\ nops < MaxOps
    /\ \E f \in Operations : stack' = <<f>>
    /\ nops' = nops + 1
    /\ UNCHANGED <<config_tunnels, client, connections, sent, returned,
                   argv, args, main_calls, exit_code, notCli>>

\* the steps of the operations
CliSteps ==
    \/ Connect
    \/ NotConnected
    \/ Disconnect
    \/ TunnelCreateRejects
    \/ TunnelCreateAddTunnel
    \/ TunnelCreateStore
    \/ TunnelDelete
    \/ TunnelList
    \/ MonitorPoll
    \/ MonitorElapsed
    \/ ConfigLoadEnter
    \/ ConfigLoadSkipDisabled
    \/ ConfigLoadSkipInvalid
    \/ ConfigLoadCreate
    \/ ConfigLoadCounts
    \/ ConfigLoadReturn

CliNext ==
    \/ CallOperation
    \/ CliSteps

SpecCli == CliInit /\ [][CliNext]_vars

----------------------------------------------------------------------------
\* an operation holds a connection: between its connect and the end of its
\* finally clause
Talking ==
    /\ stack # <<>>
    /\ Top.fn \in ClientOps
    /\ Top.at \in {"try", "store", "finally"}

\* C25: connection lifecycle.  No connection is closed twice; a connection
\* not yet closed is the client of the operation that opened it, which still
\* runs; outside such an operation, and so after any sequence of
\* tunnel_create, tunnel_delete, tunnel_list and monitor calls, however each
\* ended, client is None and every connection opened was closed once.
C25_ConnectionLifecycle ==
    /\ \A k \in 1..Len(connections) :
          /\ connections[k].closes <= 1
          /\ connections[k].closes = 0 =>
                 /\ Talking
                 /\ client = Some(k)
                 /\ connections[k].op = nops
    /\ ~Talking => client = None

\* two operations ran, each opened a connection, the second one ended by an
\* exception
C25_Witness ==
    /\ stack = <<>>
    /\ nops = 2
    /\ Len(connections) = 2
    /\ returned.kind = "raise"
    /\ connections[1].closes = 1
    /\ connections[2].closes = 1

\* the arguments the claim calls invalid
UnsupportedType(a) == a.type \notin {"tcp", "reverse", "process", "socks5"}
ProcessWithoutCommand(a) == a.type = "process" /\ a.command \in {Null, ""}
NeedsRemote(a) ==
    /\ a.type \in {"tcp", "reverse"}
    /\ a.remote_host \in {Null, ""} \/ a.remote_port = 0
InvalidArguments(a) ==
    UnsupportedType(a) \/ ProcessWithoutCommand(a) \/ NeedsRemote(a)

\* the add_tunnel calls made since the running call began
AddTunnelsSent ==
    {k \in (Top.sent0 + 1)..Len(sent) : sent[k].cmd = "add_tunnel"}

\* C27: tunnel_create is all-or-nothing.  When it is about to return False
\* or to raise, config.tunnels is what it was at the call; with invalid
\* arguments it sent no add_tunnel and returns False; config.tunnels
\* differs from what it was only by the tunnel appended after the one
\* add_tunnel call returned, and then tunnel_create returns True.
C27_CreateAllOrNothing ==
    stack # <<>> /\ Top.fn = "tunnel_create" =>
        /\ Top.pending # NoResult /\ Top.pending # Return(TRUE) =>
               config_tunnels = Top.tunnels0
        /\ InvalidArguments(Top.a) =>
               /\ AddTunnelsSent = {}
               /\ Top.at \in {"finally", "leave"} /\ client.given =>
                      Top.pending = Return(FALSE)
        /\ Top.at \in {"connect", "try", "leave"} =>
               config_tunnels = Top.tunnels0
        /\ config_tunnels # Top.tunnels0 =>
               /\ config_tunnels =
                      Append(Top.tunnels0, StoredTunnel(Top.a))
               /\ Cardinality(AddTunnelsSent) = 1
               /\ sent[Len(sent)].cmd = "add_tunnel"
               /\ Top.pending = Return(TRUE)

\* a call with invalid arguments about to return False, and in the same
\* run an earlier call that stored its tunnel
C27_Witness ==
    /\ At("tunnel_create", "finally")
    /\ Top.a = Arguments(ProcessNoCommand)
    /\ Top.pending = Return(FALSE)
    /\ config_tunnels # <<>>
    /\ Len(config_tunnels) = Len(Top.tunnels0)
    /\ nops = 2
    /\ sent # <<>>

\* the frames of config_load_tunnels on the stack
Loading == {k \in 1..Len(stack) : stack[k].fn = "config_load_tunnels"}

\* C24: config_load_tunnels attempts each entry of the loaded configuration
\* once and then ends: the entry a tunnel_create call is made for is one of
\* the entries config.tunnels held when config_load_tunnels was called.
C24_LoadAttemptsLoadedEntries ==
    \A k \in Loading :
        stack[k].at = "await" => stack[k].i <= Len(stack[k].tunnels0)

\* the enabled entries of the configuration config_load_tunnels was called
\* with
EnabledLoaded(f) == {k \in 1..Len(f.tunnels0) : f.tunnels0[k].enabled}

\* C28: config_load_tunnels returns True exactly when every enabled tunnel
\* of the configuration was created: when it is about to return, the value
\* is True if and only if there were as many successes as enabled entries.
C28_LoadResult ==
    At("config_load_tunnels", "loop") /\ Top.i > Len(config_tunnels) =>
        ((Top.success_count = Top.total_count)
             <=> (Top.success_count = Cardinality(EnabledLoaded(Top))))

----------------------------------------------------------------------------
(***************************************************************************)
(* main of rdp2tcp-cli.py.  A command line is the command, the subcommand  *)
(* and the options given, by destination; it meets what the parsers        *)
(* require (required options, choices), so parse_args returns.             *)
(***************************************************************************)

NoOptions == [k \in {} |-> Null]

\* the options of `tunnel create` that give tunnel t
CreateOptions(t) ==
    [k \in {"name", "type", "local_port"}
           \cup (IF TruthyStr(t.remote_host) THEN {"remote_host"} ELSE {})
           \cup (IF TruthyInt(t.remote_port) THEN {"remote_port"} ELSE {})
           \cup (IF TruthyStr(t.command) THEN {"command"} ELSE {})
        |-> t[k]]

\* config is the --config option, Null when it is not given
CommandLine(config, command, sub, opts) ==
    [config |-> config, command |-> command, sub |-> sub, opts |-> opts]

\* `tunnel create` with its required options
CreateLines ==
    {CommandLine(Null, "tunnel", "create", CreateOptions(t)) :
        t \in {Socks5Tunnel, TcpTunnel, ProcessTunnel,
               Tunnel("p", "process", 9000, Null, 0, "tunnel", TRUE),
               Tunnel("p", "process", 9000, Null, 0, "monitor", TRUE)}}

CommandLines ==
    CreateLines
        \cup {CommandLine(Null, Null, Null, NoOptions),
              CommandLine(Null, "tunnel", Null, NoOptions),
              CommandLine(Null, "tunnel", "delete",
                          [local_host |-> "127.0.0.1", local_port |-> 1080]),
              CommandLine(Null, "tunnel", "list", NoOptions),
              CommandLine(Null, "monitor", Null, NoOptions),
              CommandLine(Null, "config", "load", NoOptions),
              CommandLine("tunnels.json", "config", "load", NoOptions)}

\* lines 380-387: the attributes of the top-level parser and their
\* defaults; `command` is the destination of the subcommand name
TopDefaults ==
    [config |-> Null, host |-> Null, port |-> 0, log_level |-> Null,
     command |-> Null]

\* lines 395-405, 409-410, 414-415, 419-420: the attributes of the parser
\* of a subcommand and their defaults
LeafDefaults(command, sub) ==
    IF command = "tunnel" /\ sub = "create"
      THEN [name |-> Null, type |-> Null, local_host |-> "127.0.0.1",
            local_port |-> 0, remote_host |-> Null, remote_port |-> 0,
            command |-> Null]
    ELSE IF command = "tunnel" /\ sub = "delete"
      THEN [local_host |-> Null, local_port |-> 0]
    ELSE IF command = "tunnel" /\ sub = "list"
      THEN [format |-> "table"]
    ELSE IF command = "monitor"
      THEN [tunnel_id |-> Null, duration |-> 60]
    ELSE NoOptions

\* a parser's namespace: its defaults, then the options given
Parsed(defaults, opts) == opts @@ defaults

\* argparse's subparsers action: the name of the subcommand is stored under
\* dest, the subcommand's parser fills a namespace of its own, and every
\* attribute of that namespace is copied onto the parent's
WithSubcommand(namespace, dest, name, subnamespace) ==
    subnamespace @@ [namespace EXCEPT ![dest] = name]

\* lines 390-391, 423-424: the namespace of the tunnel or config parser
GroupNamespace(dest, line) ==
    IF line.sub = Null
      THEN [k \in {dest} |-> Null]
      ELSE WithSubcommand([k \in {dest} |-> Null], dest, line.sub,
                          Parsed(LeafDefaults(line.command, line.sub),
                                 line.opts))

\* line 431: parser.parse_args()
parse_args(line) ==
    IF line.command = Null THEN [TopDefaults EXCEPT !.config = line.config]
    ELSE WithSubcommand(
             [TopDefaults EXCEPT !.config = line.config],
             "command", line.command,
             IF line.command = "tunnel"
               THEN GroupNamespace("tunnel_command", line)
             ELSE IF line.command = "config"
               THEN GroupNamespace("config_command", line)
             ELSE Parsed(LeafDefaults(line.command, Null), line.opts))

\* what the dispatch of lines 449-487 comes to
Call(fn, a) == [kind |-> "call", fn |-> fn, at |-> "connect", a |-> a]
PrintHelp == [kind |-> "help", fn |-> "", at |-> "", a |-> <<>>]
AttributeError == [kind |-> "error", fn |-> "", at |-> "", a |-> <<>>]

Has(ns, names) == names \subseteq DOMAIN ns

\* lines 450-485: the method main calls for a namespace and its arguments;
\* reading an attribute the namespace does not have raises AttributeError
Dispatch(ns) ==
    IF ns.command = "tunnel"
      THEN IF ~Has(ns, {"tunnel_command"}) THEN AttributeError
           ELSE IF ns.tunnel_command = "create"
             THEN Call("tunnel_create",
                       [name |-> ns.name, type |-> ns.type,
                        local_host |-> ns.local_host,
                        local_port |-> ns.local_port,
                        remote_host |-> ns.remote_host,
                        remote_port |-> ns.remote_port,
                        command |-> ns.command])
           ELSE IF ns.tunnel_command = "delete"
             THEN Call("tunnel_delete",
                       [local_host |-> ns.local_host,
                        local_port |-> ns.local_port])
           ELSE IF ns.tunnel_command = "list"
             THEN Call("tunnel_list", <<>>)
           ELSE PrintHelp
    ELSE IF ns.command = "monitor"
      THEN IF Has(ns, {"tunnel_id", "duration"})
             THEN Call("monitor", <<>>)
             ELSE AttributeError
    ELSE IF ns.command = "config"
      THEN IF ~Has(ns, {"config_command"}) THEN AttributeError
           ELSE IF ns.config_command = "load"
             THEN [Call("config_load_tunnels", <<>>) EXCEPT !.at = "enter"]
           ELSE PrintHelp
    ELSE PrintHelp

\* main returns code
CliMainExit(code) == exit_code' = Some(code) /\ stack' = <<>>

\* line 431
CliMainParseArgs ==
    /\ At("main", "parse")
    /\ args' = parse_args(argv)
    /\ stack' = SetTop([Top EXCEPT !.at = "check"])
    /\ UNCHANGED <<config_tunnels, client, connections, sent, returned,
                   nops, argv, main_calls, exit_code, notCli>>

\* lines 433-435: no command, print the help and return 1
CliMainNoCommand ==
    /\ At("main", "check")
    /\ ~TruthyStr(args.command)
    /\ CliMainExit(1)
    /\ UNCHANGED <<config_tunnels, client, connections, sent, returned,
                   nops, argv, args, main_calls, notCli>>

\* line 438: the cli object; load_config reads the tunnels of the file
\* --config names, if it is given and the file exists
CliMainCreateCli ==
    /\ At("main", "check")
    /\ TruthyStr(args.command)
    /\ IF TruthyStr(args.config)
         THEN config_tunnels' \in Configs
         ELSE config_tunnels' = <<>>
    /\ client' = None
    /\ stack' = SetTop([Top EXCEPT !.at = "dispatch"])
    /\ UNCHANGED <<connections, sent, returned, nops, argv, args,
                   main_calls, exit_code, notCli>>

\* lines 450-478: call the method of the command
CliMainCall ==
    /\ At("main", "dispatch")
    /\ Dispatch(args).kind = "call"
    /\ main_calls' = Append(main_calls, [fn |-> Dispatch(args).fn,
                                         a |-> Dispatch(args).a])
    /\ nops' = nops + 1
    /\ stack' = Append(SetTop([Top EXCEPT !.at = "await"]),
                       Frame(Dispatch(args).fn, Dispatch(args).at,
                             Dispatch(args).a))
    /\ UNCHANGED <<config_tunnels, client, connections, sent, returned,
                   argv, args, exit_code, notCli>>

\* lines 467-469, 479-481, 483-485: print a help text, return 1
CliMainPrintHelp ==
    /\ At("main", "dispatch")
    /\ Dispatch(args).kind = "help"
    /\ CliMainExit(1)
    /\ UNCHANGED <<config_tunnels, client, connections, sent, returned,
                   nops, argv, args, main_calls, notCli>>

\* lines 492-494: an exception of the dispatch itself
CliMainUnexpectedError ==
    /\ At("main", "dispatch")
    /\ Dispatch(args).kind = "error"
    /\ CliMainExit(1)
    /\ UNCHANGED <<config_tunnels, client, connections, sent, returned,
                   nops, argv, args, main_calls, notCli>>

\* lines 487-494: 0 when the method returned a true value, 1 when it
\* returned a false one or raised
CliMainReturn ==
    /\ At("main", "await")
    /\ CliMainExit(IF returned.kind = "return" /\ returned.value
                  THEN 0 ELSE 1)
    /\ UNCHANGED <<config_tunnels, client, connections, sent, returned,
                   nops, argv, args, main_calls, notCli>>

CliMainInit ==
    /\ argv \in CommandLines
    /\ args = <<>>
    /\ config_tunnels = <<>>
    /\ client = None
    /\ connections = <<>>
    /\ sent = <<>>
    /\ returned = NoResult
    /\ nops = 0
    /\ main_calls = <<>>
    /\ exit_code = None
    /\ stack = <<Frame("main", "parse", <<>>)>>
    /\ XteIdle
    /\ CodecIdle
    /\ MainIdle
    /\ CallsIdle
    /\ SocksIdle
    /\ pc = "cli"

CliMainNext ==
    \/ CliMainParseArgs
    \/ CliMainNoCommand
    \/ CliMainCreateCli
    \/ CliMainCall
    \/ CliMainPrintHelp
    \/ CliMainUnexpectedError
    \/ CliMainReturn
    \/ CliSteps

SpecCliMain == CliMainInit /\ [][CliMainNext]_vars

----------------------------------------------------------------------------
\* the value of an option of the command line, d when it is not given
Option(k, d) == IF k \in DOMAIN argv.opts THEN argv.opts[k] ELSE d

\* the call `tunnel create` stands for: the values of the options, the
\* --command option as command
CreateCallOfLine ==
    [fn |-> "tunnel_create",
     a |-> [name |-> Option("name", Null), type |-> Option("type", Null),
            local_host |-> Option("local_host", "127.0.0.1"),
            local_port |-> Option("local_port", 0),
            remote_host |-> Option("remote_host", Null),
            remote_port |-> Option("remote_port", 0),
            command |-> Option("command", Null)]]

\* C26: for the command line `tunnel create` with its required options,
\* when main has returned it has called tunnel_create once, with the values
\* of the options and the --command option (None when omitted) as command,
\* and its exit status is 0 exactly when tunnel_create returned True.
C26_CreateCommandLine ==
    /\ argv.command = "tunnel"
    /\ argv.sub = "create"
    /\ exit_code.given
    => /\ main_calls = <<CreateCallOfLine>>
       /\ exit_code.value = 0 <=> returned = Return(TRUE)

----------------------------------------------------------------------------
(***************************************************************************)
(* The SOCKS5 testers: debug_socks5 (tools/debug-socks5.py),               *)
(* test_socks5_handshake (tools/test-socks5.py), test_socks5_connection    *)
(* (tools/test-proxy.py) and test_socks5_with_activity with the main of    *)
(* tools/test-channel.py.  The proxy and the controller are the            *)
(* environment: recv returns any bytes up to the length asked for, and     *)
(* every call on the socket or on the controller client can raise.         *)
(***************************************************************************)

HandshakeTesters ==
    {"debug_socks5", "test_socks5_handshake", "test_socks5_connection"}
Testers == HandshakeTesters \cup {"test_socks5_with_activity"}

\* the bytes a reply is made of
ReplyBytes == {0, 1, 5}

\* recv(2)
MethodReplyLen == 2
\* the longest reply to the connect request drawn; recv(10) allows ten bytes
MaxReplyLen == 4

MethodReplies == SeqsUpTo(ReplyBytes, MethodReplyLen)
ConnectReplies == SeqsUpTo(ReplyBytes, MaxReplyLen)
HttpReplies == {<<>>, <<72, 84, 84, 80>>}

\* b'\x05\x01\x00': version 5, one method, method 0
Handshake == <<5, 1, 0>>

\* "ifconfig.io".encode()
TargetHost == <<105, 102, 99, 111, 110, 102, 105, 103, 46, 105, 111>>
TargetPort == 80

\* struct.pack('!H', n)
PackH(n) == <<n \div 256, n % 256>>

\* the connect request: version 5, command 1, reserved 0, address type 3,
\* the length of the domain, the domain, the port
ConnectRequest ==
    <<5, 1, 0, 3>> \o <<Len(TargetHost)>> \o TargetHost \o PackH(TargetPort)

Sent(what, bytes) == [dir |-> "send", what |-> what, data |-> bytes]
Received(what, bytes) == [dir |-> "recv", what |-> what, data |-> bytes]

\* the tester returns v
TesterReturns(v) ==
    /\ tester_result' = Some(v)
    /\ pc' = "returned"

notSocks == <<xteVars, codecVars, mainVars, callVars, cliVars>>

SocksInit ==
    /\ tester \in Testers
    /\ sock = "none"
    /\ wire = <<>>
    /\ response = <<>>
    /\ tester_result = None
    /\ script_exit = None
    /\ XteIdle
    /\ CodecIdle
    /\ MainIdle
    /\ CallsIdle
    /\ CliIdle
    /\ pc = IF tester = "test_socks5_with_activity" THEN "main"
            ELSE "connect"

\* test-channel.py lines 183-188: main runs test_channel_activity (lines
\* 10-55), which returns False when a call on the controller raised, and
\* stops when it did
ChannelMainStarts ==
    /\ tester = "test_socks5_with_activity"
    /\ pc = "main"
    /\ \E ok \in BOOLEAN :
          IF ok THEN pc' = "setup" /\ UNCHANGED script_exit
          ELSE pc' = "exited" /\ script_exit' = Some(1)
    /\ UNCHANGED <<tester, sock, wire, response, tester_result, notSocks>>

\* test-channel.py lines 65-81: the controller connection and the two
\* tunnels; an exception is caught at lines 142-144
ActivitySetup ==
    /\ pc = "setup"
    /\ \E ok \in BOOLEAN :
          IF ok THEN pc' = "connect" /\ UNCHANGED tester_result
          ELSE TesterReturns(FALSE)
    /\ UNCHANGED <<tester, sock, wire, response, script_exit, notSocks>>

\* sock.connect: debug-socks5.py line 28, test-socks5.py line 22,
\* test-proxy.py line 27, test-channel.py line 87
SockConnect ==
    /\ pc = "connect"
    /\ sock' = "open"
    /\ pc' = "handshake"
    /\ UNCHANGED <<tester, wire, response, tester_result, script_exit,
                   notSocks>>

\* a call on the socket raises (a timeout, a reset): the except clauses
\* return False
SocketError ==
    /\ pc \in {"connect", "handshake", "recv_method", "connect_req",
               "recv_connect", "http", "recv_http"}
    /\ TesterReturns(FALSE)
    /\ UNCHANGED <<tester, sock, wire, response, script_exit, notSocks>>

\* sock.send(handshake)
SendHandshake ==
    /\ pc = "handshake"
    /\ wire' = Append(wire, Sent("handshake", Handshake))
    /\ pc' = "recv_method"
    /\ UNCHANGED <<tester, sock, response, tester_result, script_exit,
                   notSocks>>

\* response = sock.recv(2)
RecvMethod ==
    /\ pc = "recv_method"
    /\ \E r \in MethodReplies :
          /\ response' = r
          /\ wire' = Append(wire, Received("method", r))
    /\ pc' = "check_method"
    /\ UNCHANGED <<tester, sock, tester_result, script_exit, notSocks>>

\* a tester that looks at the version of the method reply only
method_ok_any_method(t, r) == Len(r) = 2 /\ r[1] = 5

\* the method reply lets the tester go on: debug-socks5.py lines 42-59 and
\* test-socks5.py lines 36-53 test the length, the version and the method
\* in turn, test-proxy.py line 36 and test-channel.py line 95 compare with
\* b'\x05\x00'
method_ok(t, r) ==
    IF t \in {"debug_socks5", "test_socks5_handshake"}
      THEN Len(r) # 0 /\ ~(Len(r) < 2) /\ r[1] = 5 /\ r[2] = 0
      ELSE r = <<5, 0>>

\* the reply to the connect request lets the tester go on: at least the
\* four bytes unpacked as ver, rep, rsv, atyp, and rep is 0 (debug-socks5.py
\* lines 80-91, test-socks5.py lines 74-85, test-proxy.py lines 49-54,
\* test-channel.py lines 109-113)
connect_ok(t, r) == Len(r) >= 4 /\ r[2] = 0

\* the three handshake testers return False
MethodRejected ==
    /\ pc = "check_method"
    /\ tester \in HandshakeTesters
    /\ ~method_ok(tester, response)
    /\ TesterReturns(FALSE)
    /\ UNCHANGED <<tester, sock, wire, response, script_exit, notSocks>>

\* test-channel.py lines 130-131: print that the handshake failed
ActivityMethodRejected ==
    /\ pc = "check_method"
    /\ tester = "test_socks5_with_activity"
    /\ ~method_ok(tester, response)
    /\ pc' = "close"
    /\ UNCHANGED <<tester, sock, wire, response, tester_result, script_exit,
                   notSocks>>

MethodAccepted ==
    /\ pc = "check_method"
    /\ method_ok(tester, response)
    /\ pc' = "connect_req"
    /\ UNCHANGED <<tester, sock, wire, response, tester_result, script_exit,
                   notSocks>>

\* sock.send(connect_req)
SendConnect ==
    /\ pc = "connect_req"
    /\ wire' = Append(wire, Sent("connect", ConnectRequest))
    /\ pc' = "recv_connect"
    /\ UNCHANGED <<tester, sock, response, tester_result, script_exit,
                   notSocks>>

\* response = sock.recv(10)
RecvConnect ==
    /\ pc = "recv_connect"
    /\ \E r \in ConnectReplies :
          /\ response' = r
          /\ wire' = Append(wire, Received("connect", r))
    /\ pc' = "check_connect"
    /\ UNCHANGED <<tester, sock, tester_result, script_exit, notSocks>>

\* the three handshake testers return False
ConnectRejected ==
    /\ pc = "check_connect"
    /\ tester \in HandshakeTesters
    /\ ~connect_ok(tester, response)
    /\ TesterReturns(FALSE)
    /\ UNCHANGED <<tester, sock, wire, response, script_exit, notSocks>>

ConnectAccepted ==
    /\ pc = "check_connect"
    /\ tester \in HandshakeTesters
    /\ connect_ok(tester, response)
    /\ pc' = "http"
    /\ UNCHANGED <<tester, sock, wire, response, tester_result, script_exit,
                   notSocks>>

\* test-channel.py lines 109-129: print what the reply says
ActivityConnectChecked ==
    /\ pc = "check_connect"
    /\ tester = "test_socks5_with_activity"
    /\ pc' = "close"
    /\ UNCHANGED <<tester, sock, wire, response, tester_result, script_exit,
                   notSocks>>

HttpRequest ==
    <<"GET /ip HTTP/1.1", "Host: ifconfig.io", "Connection: close", "">>

\* sock.send(http_request)
SendHttp ==
    /\ pc = "http"
    /\ wire' = Append(wire, Sent("http", HttpRequest))
    /\ pc' = "recv_http"
    /\ UNCHANGED <<tester, sock, response, tester_result, script_exit,
                   notSocks>>

\* response = sock.recv(1024); test-socks5.py lines 112-116 return False
\* when it is empty; otherwise the socket is closed and the tester returns
\* True
RecvHttp ==
    /\ pc = "recv_http"
    /\ \E r \in HttpReplies :
          /\ response' = r
          /\ wire' = Append(wire, Received("http", r))
          /\ IF tester = "test_socks5_handshake" /\ r = <<>>
               THEN TesterReturns(FALSE) /\ UNCHANGED sock
               ELSE TesterReturns(TRUE) /\ sock' = "closed"
    /\ UNCHANGED <<tester, script_exit, notSocks>>

\* test-channel.py lines 133-144: close the socket, delete the tunnels,
\* close the controller connection, return True; False when one of the
\* calls on the controller raised
ActivityClose ==
    /\ pc = "close"
    /\ sock' = "closed"
    /\ \E ok \in BOOLEAN : TesterReturns(ok)
    /\ UNCHANGED <<tester, wire, response, script_exit, notSocks>>

\* test-channel.py lines 191-200
ChannelMainExit ==
    /\ tester = "test_socks5_with_activity"
    /\ pc = "returned"
    /\ script_exit' = Some(IF tester_result.value THEN 0 ELSE 1)
    /\ pc' = "exited"
    /\ UNCHANGED <<tester, sock, wire, response, tester_result, notSocks>>

SocksNext ==
    \/ ChannelMainStarts
    \/ ActivitySetup
    \/ SockConnect
    \/ SocketError
    \/ SendHandshake
    \/ RecvMethod
    \/ MethodRejected
    \/ ActivityMethodRejected
    \/ MethodAccepted
    \/ SendConnect
    \/ RecvConnect
    \/ ConnectRejected
    \/ ConnectAccepted
    \/ ActivityConnectChecked
    \/ SendHttp
    \/ RecvHttp
    \/ ActivityClose
    \/ ChannelMainExit

SpecSocks == SocksInit /\ [][SocksNext]_vars

----------------------------------------------------------------------------
IsSent(k, what) == wire[k].dir = "send" /\ wire[k].what = what
IsReceived(k, what) == wire[k].dir = "recv" /\ wire[k].what = what

\* a method-selection reply of two bytes, version 5, method 0 (no auth)
NoAuthSelected(bytes) == Len(bytes) = 2 /\ bytes[1] = 5 /\ bytes[2] = 0

\* a reply to the connect request of at least four bytes with reply code 0
ConnectGranted(bytes) == Len(bytes) >= 4 /\ bytes[2] = 0

\* C29: step ordering in the three handshake testers.  A connect request
\* (version 5, command 1, address type 3) comes right after a two-byte
\* method reply with version 5 and method 0; the HTTP request comes right
\* after a connect reply of at least four bytes with reply code 0; any other
\* reply is the last thing on the socket, and the tester returns False.
C29_StepOrdering ==
    tester \in HandshakeTesters =>
        \A k \in 1..Len(wire) :
            /\ IsSent(k, "connect") =>
                   /\ wire[k].data[1] = 5
                   /\ wire[k].data[2] = 1
                   /\ wire[k].data[4] = 3
                   /\ k > 1
                   /\ IsReceived(k - 1, "method")
                   /\ NoAuthSelected(wire[k - 1].data)
            /\ IsSent(k, "http") =>
                   /\ k > 1
                   /\ IsReceived(k - 1, "connect")
                   /\ ConnectGranted(wire[k - 1].data)
            /\ IsReceived(k, "method") /\ ~NoAuthSelected(wire[k].data) =>
                   /\ k = Len(wire)
                   /\ pc = "check_method" \/ tester_result = Some(FALSE)
            /\ IsReceived(k, "connect") /\ ~ConnectGranted(wire[k].data) =>
                   /\ k = Len(wire)
                   /\ pc = "check_connect" \/ tester_result = Some(FALSE)

\* a tester went through the whole exchange: handshake, method reply,
\* connect request, reply, HTTP request, response
C29_Witness ==
    /\ tester = "test_socks5_connection"
    /\ Len(wire) = 6
    /\ IsSent(3, "connect")
    /\ IsSent(5, "http")
    /\ wire[4].data = <<5, 0, 0, 1>>
    /\ tester_result = Some(TRUE)

\* what the proxy answered in this run
NegotiationRejected ==
    \E k \in 1..Len(wire) :
        IsReceived(k, "method") /\ ~NoAuthSelected(wire[k].data)
ConnectIncomplete ==
    \E k \in 1..Len(wire) : IsReceived(k, "connect") /\ Len(wire[k].data) < 4
ConnectRefused ==
    \E k \in 1..Len(wire) :
        /\ IsReceived(k, "connect")
        /\ Len(wire[k].data) >= 4
        /\ wire[k].data[2] # 0
ConnectSucceeded ==
    \E k \in 1..Len(wire) :
        IsReceived(k, "connect") /\ ConnectGranted(wire[k].data)

\* C30: test_socks5_with_activity returns False, and the script exits
\* non-zero, when the method negotiation was rejected, the connect reply
\* was incomplete or its reply code was not 0; it returns True only when
\* the connect succeeded.
C30_ActivityReportsFailure ==
    tester = "test_socks5_with_activity" /\ tester_result.given =>
        /\ NegotiationRejected \/ ConnectIncomplete \/ ConnectRefused =>
               /\ tester_result = Some(FALSE)
               /\ script_exit.given => script_exit.value # 0
        /\ tester_result = Some(TRUE) => ConnectSucceeded
====
